---- MODULE Spec2Model ----
(***************************************************************************)
(* Clone Dance: the score/combo state machine of the game (the revision    *)
(* with time-integrated scoring), its tracking-loss handling and the       *)
(* session lifecycle around it.                                            *)
(*                                                                         *)
(* Units.  Media time is counted in ticks, TicksPerSec ticks to a second,  *)
(* so every *Sec quantity of the source is an integer number of ticks.     *)
(* Accuracies and weights are counted in tenths (0.7 is 7).  The source    *)
(* computes with IEEE doubles; the model computes with exact numbers.      *)
(***************************************************************************)
EXTENDS Integers, Sequences, FiniteSets, TLC

----------------------------------------------------------------------------
(* Bounds of the model *)

TicksPerSec == 2
\* the media clock is observed at the instants 0..NearTime, at MidTime and at
\* the end of the video
NearTime == 1
MidTime == 14
\* length of the reference video, in ticks
Duration == 25
\* user gestures (clicks, slider moves) in a run
MaxClicks == 2
\* detector results delivered in a run
MaxFrames == 2
\* the comparisons of one behaviour of the comparison specification
MaxCompares == 2
\* the detector results of one behaviour of the calibration specification
MaxCalibrationSamples == 4
\* the poses calculateAngles is applied to in one behaviour
MaxAnglePoses == 1
\* detector results of a playing session seen result by result, and the
\* media time (in ticks) that session is followed to
MaxPlayResults == 3
MaxPlayTime == 4
\* clicks on the play/pause button in that session
MaxPlayToggles == 2
\* startSongWithCountdown coroutines in flight when countdowns race
MaxRacingCountdowns == 2
\* number of joint angles a pose can carry in the model
MaxDetected == 1
\* pending setTimeout(startGameAfterCalibration) timers
MaxPendingStarts == 1
\* startSongWithCountdown coroutines in flight
MaxCountdowns == 1
\* audio-fallback overlays on the page
MaxOverlays == 1
\* samples in an uninterrupted run of good samples
MaxRunSamples == 4
\* entries of a reference track, the timestamps they carry (0..MaxTrackTime),
\* the instants queried (0..MaxQueryTime) and the window sizes queried
MaxTrackLen == 12
MaxTrackTime == 2
MaxQueryTime == 3
MaxWindow == 1
\* entries of a track whose entries differ in landmarks and quick score
MaxCandidates == 3

SampleTimes == (0..NearTime) \cup {MidTime, Duration}

----------------------------------------------------------------------------
(* Program constants *)

null == -1

SCORE_ACCURACY_THRESHOLD == 7
SCORE_POINTS_PER_SECOND == 100
COMBO_SECONDS == 2
MAX_COMBO == 5
MIN_REFERENCE_DETECTED_ANGLES_FOR_SCORING == 1
MIN_PLAYER_DETECTED_ANGLES_FOR_SCORING == 1
REFERENCE_NO_POSE_WARNING_DELAY_SEC == 2
PLAYER_NO_POSE_WARNING_DELAY_SEC == 2
POSITION_WEIGHT == 5
ANGLE_WEIGHT == 3
MIN_CALIBRATION_QUALITY == 7
\* the indices getReferencePosesInWindow searches on either side of its hint
SEARCH_HINT_RADIUS == 10
\* read from config.json, which is not part of the sources: two time units
POSE_TIME_TOLERANCE_SEC == 2
\* GameConfig.POSE_TIME_WINDOW: one time unit
POSE_TIME_WINDOW == 1
\* the overall_score, in hundredths, at which getCurrentReferencePose stops
\* looking for a better candidate
EARLY_EXIT_THRESHOLD == 95
\* overall_scores, in hundredths, comparePosesQuick can give an entry that
\* carries landmarks
QuickScores == {50, 95, 100}
\* consecutive qualifying samples that complete a calibration: the program's
\* configuration asks for 90, the model for a number the run budget allows
CALIBRATION_FRAMES == 2

\* accuracies compareAngles and comparePositions can report, in tenths
\* positions are in hundredths of the frame, visibilities in hundredths, and
\* scale factors in hundredths (ScaleUnit is the factor 1)
ScaleUnit == 100
MIN_TORSO_SIZE == 1
NORMALIZE_BY_TORSO == TRUE
\* a landmark below this visibility is skipped by the comparisons
MinVisibility == 50
\* the shoulders and the hips
TorsoIds == {11, 12, 23, 24}
\* the joints comparePositions scores (GameConfig.SCORING_JOINTS; the model
\* keeps a shoulder and a wrist) and the angles compareAngles scores
\* (the keys of GameConfig.ANGLE_JOINTS; the model keeps four)
ScoringJoints == {11, 15}
AngleNames == {"left_elbow", "right_elbow", "left_knee", "right_knee"}

AngleAccuracies == {5, 7}
PositionAccuracies == {0, 10}

Min(a, b) == IF a <= b THEN a ELSE b
Max(a, b) == IF a >= b THEN a ELSE b
Abs(x) == IF x < 0 THEN -x ELSE x

----------------------------------------------------------------------------
VARIABLES
    \* score state
    score, combo, currentAccuracy, lastScoreTimeSec,
    goodTimeAccumSec, goodStreakSec,
    statsMaxCombo, statsAverageAccuracyAccum, statsTrackedTimeSec,
    \* session state
    isPlaying, isCalibrated, isCountdownActive, calibrationFrames,
    currentPlayerPose,
    \* the normalization that calibration computes, and whether the loop
    \* that submits frames to the detector still runs
    scaleFactorX, scaleFactorY, offsetX, offsetY, processingFrames,
    \* the smoothing histories of comparePositions and compareAngles: for
    \* each joint or angle name the smoothed value of its last comparison,
    \* null where the history has no entry
    positionSmoothHistory, angleSmoothHistory,
    \* tracking-loss state
    referenceLowAnglesSinceSec, playerLowAnglesSinceSec, noPoseWarningMessage,
    \* the reference video element
    videoTime, videoPaused,
    \* asynchronous work in flight
    pendingStarts, countdowns, audioOverlays,
    \* observation: the return updateScore took in the last step (or "none"),
    \* what comparePoses returned in it, and the media time of the last
    \* updateScore call when that call was a frozen one and no other handler
    \* ran since (null otherwise)
    lastCall, comparison, frozenAt,
    \* observation: the call of calculateNormalization made in the last step
    \* (or NoCalibration): whether the torso landmarks it was given were all
    \* present and visible, and whether it raised
    calibration,
    \* observation: what updateNoPoseState returned in the last step (or
    \* NoScoreControl)
    scoreControl,
    \* observation: the poses compareAngles and comparePositions were given
    \* in the last step and what they returned (or NoCompared)
    compared,
    \* the gestures and detector results of the run so far
    clicks, frames,
    \* the reference track (referenceData.poses), the search hint of
    \* getReferencePosesInWindow, and observation: the last lookup made
    \* and what it returned
    poses, lastSearchIndex, lookup

progVars == <<score, combo, currentAccuracy, lastScoreTimeSec,
              goodTimeAccumSec, goodStreakSec,
              statsMaxCombo, statsAverageAccuracyAccum, statsTrackedTimeSec,
              isPlaying, isCalibrated, isCountdownActive, calibrationFrames,
              currentPlayerPose,
              scaleFactorX, scaleFactorY, offsetX, offsetY, processingFrames,
              positionSmoothHistory, angleSmoothHistory,
              referenceLowAnglesSinceSec, playerLowAnglesSinceSec,
              noPoseWarningMessage,
              videoTime, videoPaused,
              pendingStarts, countdowns, audioOverlays>>

gameVars ==
    <<progVars, lastCall, comparison, frozenAt, calibration, scoreControl,
      compared, clicks, frames>>

trackVars == <<poses, lastSearchIndex, lookup>>

vars == <<gameVars, trackVars>>

\* the program state as one record, so that handlers compose as functions
S == [score |-> score, combo |-> combo, currentAccuracy |-> currentAccuracy,
      lastScoreTimeSec |-> lastScoreTimeSec,
      goodTimeAccumSec |-> goodTimeAccumSec, goodStreakSec |-> goodStreakSec,
      statsMaxCombo |-> statsMaxCombo,
      statsAverageAccuracyAccum |-> statsAverageAccuracyAccum,
      statsTrackedTimeSec |-> statsTrackedTimeSec,
      isPlaying |-> isPlaying, isCalibrated |-> isCalibrated,
      isCountdownActive |-> isCountdownActive,
      calibrationFrames |-> calibrationFrames,
      currentPlayerPose |-> currentPlayerPose,
      scaleFactorX |-> scaleFactorX, scaleFactorY |-> scaleFactorY,
      offsetX |-> offsetX, offsetY |-> offsetY,
      processingFrames |-> processingFrames,
      positionSmoothHistory |-> positionSmoothHistory,
      angleSmoothHistory |-> angleSmoothHistory,
      referenceLowAnglesSinceSec |-> referenceLowAnglesSinceSec,
      playerLowAnglesSinceSec |-> playerLowAnglesSinceSec,
      noPoseWarningMessage |-> noPoseWarningMessage,
      videoTime |-> videoTime, videoPaused |-> videoPaused,
      pendingStarts |-> pendingStarts, countdowns |-> countdowns,
      audioOverlays |-> audioOverlays]

Commit(s) ==
    /\ score' = s.score
    /\ combo' = s.combo
    /\ currentAccuracy' = s.currentAccuracy
    /\ lastScoreTimeSec' = s.lastScoreTimeSec
    /\ goodTimeAccumSec' = s.goodTimeAccumSec
    /\ goodStreakSec' = s.goodStreakSec
    /\ statsMaxCombo' = s.statsMaxCombo
    /\ statsAverageAccuracyAccum' = s.statsAverageAccuracyAccum
    /\ statsTrackedTimeSec' = s.statsTrackedTimeSec
    /\ isPlaying' = s.isPlaying
    /\ isCalibrated' = s.isCalibrated
    /\ isCountdownActive' = s.isCountdownActive
    /\ calibrationFrames' = s.calibrationFrames
    /\ currentPlayerPose' = s.currentPlayerPose
    /\ scaleFactorX' = s.scaleFactorX
    /\ scaleFactorY' = s.scaleFactorY
    /\ offsetX' = s.offsetX
    /\ offsetY' = s.offsetY
    /\ processingFrames' = s.processingFrames
    /\ positionSmoothHistory' = s.positionSmoothHistory
    /\ angleSmoothHistory' = s.angleSmoothHistory
    /\ referenceLowAnglesSinceSec' = s.referenceLowAnglesSinceSec
    /\ playerLowAnglesSinceSec' = s.playerLowAnglesSinceSec
    /\ noPoseWarningMessage' = s.noPoseWarningMessage
    /\ videoTime' = s.videoTime
    /\ videoPaused' = s.videoPaused
    /\ pendingStarts' = s.pendingStarts
    /\ countdowns' = s.countdowns
    /\ audioOverlays' = s.audioOverlays
    /\ UNCHANGED trackVars

NoComparison == [overall_num |-> 0, angles |-> 0]

NoCalibration ==
    [called |-> FALSE, playerTrusted |-> TRUE, referenceTrusted |-> TRUE,
     raised |-> FALSE, playerLandmarks |-> <<>>, referenceLandmarks |-> <<>>,
     before |-> <<>>]

NoCompared == [called |-> FALSE, calculated |-> FALSE]

\* {}: a history with no entry
NoHistory(keys) == [k \in keys |-> null]

NoScoreControl ==
    [called |-> FALSE, referenceInsufficient |-> FALSE,
     playerInsufficient |-> FALSE, freezeScoring |-> FALSE]

NoLookup ==
    [fn |-> "none", time |-> 0, windowSize |-> 0, hint |-> 0,
     candidates |-> <<>>, result |-> <<>>]

----------------------------------------------------------------------------
(* getGameTimeSec: the reference video's currentTime (the video element    *)
(* exists from initGame on, and its currentTime is finite)                 *)

getGameTimeSec(s) == s.videoTime

(* resetNoPoseState *)
resetNoPoseState(s) ==
    [s EXCEPT !.referenceLowAnglesSinceSec = null,
              !.playerLowAnglesSinceSec = null,
              !.noPoseWarningMessage = {}]

----------------------------------------------------------------------------
(* updateNoPoseState: the since-timestamps of either side, the warning,    *)
(* and the freeze decision it returns.  nowTimeSec is always finite here.  *)

referenceInsufficient(referenceDetectedAngles) ==
    referenceDetectedAngles < MIN_REFERENCE_DETECTED_ANGLES_FOR_SCORING

playerInsufficient(playerDetectedAngles) ==
    playerDetectedAngles < MIN_PLAYER_DETECTED_ANGLES_FOR_SCORING

freezeScoringBothSides(referenceDetectedAngles, playerDetectedAngles) ==
    referenceInsufficient(referenceDetectedAngles)
        /\ playerInsufficient(playerDetectedAngles)

freezeScoring(referenceDetectedAngles, playerDetectedAngles) ==
    referenceInsufficient(referenceDetectedAngles)
        \/ playerInsufficient(playerDetectedAngles)

lowAnglesSinceRestarts(insufficient, sinceSec, nowTimeSec) ==
    IF insufficient THEN nowTimeSec ELSE null

lowAnglesSince(insufficient, sinceSec, nowTimeSec) ==
    IF insufficient
    THEN (IF sinceSec = null THEN nowTimeSec ELSE sinceSec)
    ELSE null

warnings(s, referenceDetectedAngles, playerDetectedAngles, nowTimeSec) ==
    (IF /\ referenceInsufficient(referenceDetectedAngles)
        /\ s.referenceLowAnglesSinceSec # null
        /\ nowTimeSec - s.referenceLowAnglesSinceSec
               >= REFERENCE_NO_POSE_WARNING_DELAY_SEC * TicksPerSec
     THEN {"TOO FEW POSES IN REFERENCE VIDEO)"} ELSE {})
    \cup
    (IF /\ playerInsufficient(playerDetectedAngles)
        /\ s.playerLowAnglesSinceSec # null
        /\ nowTimeSec - s.playerLowAnglesSinceSec
               >= PLAYER_NO_POSE_WARNING_DELAY_SEC * TicksPerSec
     THEN {"TOO FEW POSES IN YOUR VIDEO"} ELSE {})

updateNoPoseState(s, referenceDetectedAngles, playerDetectedAngles, nowTimeSec) ==
    LET s1 == [s EXCEPT
                 !.referenceLowAnglesSinceSec =
                     lowAnglesSince(referenceInsufficient(referenceDetectedAngles),
                                    @, nowTimeSec),
                 !.playerLowAnglesSinceSec =
                     lowAnglesSince(playerInsufficient(playerDetectedAngles),
                                    @, nowTimeSec)]
    IN  [s1 EXCEPT !.noPoseWarningMessage =
             warnings(s1, referenceDetectedAngles, playerDetectedAngles,
                      nowTimeSec)]

\* the value updateNoPoseState returns
scoreControlOf(referenceDetectedAngles, playerDetectedAngles) ==
    [called |-> TRUE,
     referenceInsufficient |-> referenceInsufficient(referenceDetectedAngles),
     playerInsufficient |-> playerInsufficient(playerDetectedAngles),
     freezeScoring |-> freezeScoring(referenceDetectedAngles,
                                     playerDetectedAngles)]

----------------------------------------------------------------------------
(* updateScore *)

awardOneSecond(sc, accum) ==
    IF accum >= TicksPerSec
    THEN <<sc + SCORE_POINTS_PER_SECOND, accum - TicksPerSec>>
    ELSE <<sc, accum>>

\* while (goodTimeAccumSec >= 1) { score += pointsPerSecond; goodTimeAccumSec -= 1 }
RECURSIVE awardWholeSeconds(_, _)
awardWholeSeconds(sc, accum) ==
    IF accum >= TicksPerSec
    THEN awardWholeSeconds(sc + SCORE_POINTS_PER_SECOND, accum - TicksPerSec)
    ELSE <<sc, accum>>

newComboUncapped(streakSec) == streakSec \div (COMBO_SECONDS * TicksPerSec)

newComboRounded(streakSec) ==
    Min(MAX_COMBO, (2 * streakSec + COMBO_SECONDS * TicksPerSec)
                       \div (2 * COMBO_SECONDS * TicksPerSec))

newCombo(streakSec) ==
    Min(MAX_COMBO, streakSec \div (COMBO_SECONDS * TicksPerSec))

reachesThreshold(accuracy) == accuracy >= SCORE_ACCURACY_THRESHOLD

frozenSampleKeepsTime(s, nowTimeSec) == s

frozenSampleAsBad(s, nowTimeSec) ==
    [s EXCEPT !.lastScoreTimeSec = nowTimeSec,
              !.goodTimeAccumSec = 0, !.goodStreakSec = 0, !.combo = 0]

\* if (freezeScoring) { lastScoreTimeSec = nowTimeSec; return }
frozenSample(s, nowTimeSec) == [s EXCEPT !.lastScoreTimeSec = nowTimeSec]

\* lastScoreTimeSec === null || nowTimeSec < lastScoreTimeSec
regressed(s, nowTimeSec) ==
    s.lastScoreTimeSec = null \/ nowTimeSec < s.lastScoreTimeSec

resyncKeepsLastTime(s, nowTimeSec) == s

\* lastScoreTimeSec = nowTimeSec; return
resync(s, nowTimeSec) == [s EXCEPT !.lastScoreTimeSec = nowTimeSec]

goodSampleRestartsStreak(s, delta) ==
    LET award == awardWholeSeconds(s.score, s.goodTimeAccumSec + delta)
        c == newCombo(delta)
    IN  [s EXCEPT !.goodTimeAccumSec = award[2],
                  !.goodStreakSec = delta,
                  !.score = award[1],
                  !.combo = c,
                  !.statsMaxCombo = Max(@, c)]

goodSamplePerFrame(s, delta) ==
    LET streak == s.goodStreakSec + delta
        c == newCombo(streak)
    IN  [s EXCEPT !.goodTimeAccumSec = 0,
                  !.goodStreakSec = streak,
                  !.score = @ + SCORE_POINTS_PER_SECOND,
                  !.combo = c,
                  !.statsMaxCombo = Max(@, c)]

goodSample(s, delta) ==
    LET streak == s.goodStreakSec + delta
        award == awardWholeSeconds(s.score, s.goodTimeAccumSec + delta)
        c == newCombo(streak)
    IN  [s EXCEPT !.goodTimeAccumSec = award[2],
                  !.goodStreakSec = streak,
                  !.score = award[1],
                  !.combo = c,
                  !.statsMaxCombo = Max(@, c)]

badSampleKeepsStreak(s) ==
    [s EXCEPT !.goodTimeAccumSec = 0, !.combo = 0]

badSampleKeepsCombo(s) ==
    [s EXCEPT !.goodTimeAccumSec = 0, !.goodStreakSec = 0]

badSample(s) ==
    [s EXCEPT !.goodTimeAccumSec = 0, !.goodStreakSec = 0, !.combo = 0]

trackStatsWhenGood(s, delta) ==
    IF reachesThreshold(s.currentAccuracy)
    THEN [s EXCEPT !.statsAverageAccuracyAccum = @ + s.currentAccuracy * delta,
                   !.statsTrackedTimeSec = @ + delta]
    ELSE s

\* statsAverageAccuracyAccum += currentAccuracy * delta;
\* statsTrackedTimeSec += delta
trackStats(s, delta) ==
    [s EXCEPT !.statsAverageAccuracyAccum = @ + s.currentAccuracy * delta,
              !.statsTrackedTimeSec = @ + delta]

\* which return of updateScore a call takes
scoreBranch(s, angleAccuracy, nowTimeSec, freeze) ==
    IF freeze THEN "frozen"
    ELSE IF s.lastScoreTimeSec = null THEN "first"
    ELSE IF regressed(s, nowTimeSec) THEN "regress"
    ELSE IF nowTimeSec - s.lastScoreTimeSec <= 0 THEN "zero"
    ELSE IF reachesThreshold(angleAccuracy) THEN "good"
    ELSE "bad"

updateScore(s, angleAccuracy, nowTimeSec, freeze) ==
    IF freeze THEN frozenSample(s, nowTimeSec)
    ELSE
      LET s1 == [s EXCEPT !.currentAccuracy = angleAccuracy] IN
      IF regressed(s1, nowTimeSec)
      THEN resync(s1, nowTimeSec)
      ELSE
        LET delta == nowTimeSec - s1.lastScoreTimeSec
            s2 == [s1 EXCEPT !.lastScoreTimeSec = nowTimeSec]
        IN
        IF delta <= 0 THEN s2
        ELSE
          LET s3 == trackStats(s2, delta)
          IN  IF reachesThreshold(s3.currentAccuracy)
              THEN goodSample(s3, delta)
              ELSE badSample(s3)

----------------------------------------------------------------------------
(* comparePoses.  A pose is represented by the number of joint angles that *)
(* can be computed from it (countDetectedAngles); the accuracies that      *)
(* comparePositions and compareAngles report for the pair are inputs.      *)

weightSum == POSITION_WEIGHT + ANGLE_WEIGHT

positionAccuracy(pa) == IF POSITION_WEIGHT > 0 THEN pa ELSE 0
angleAccuracy(aa) == IF ANGLE_WEIGHT > 0 THEN aa ELSE 0

\* overall_score * weightSum (overall_score itself when weightSum = 0)
overallNum(pa, aa) ==
    IF weightSum > 0
    THEN POSITION_WEIGHT * positionAccuracy(pa) + ANGLE_WEIGHT * angleAccuracy(aa)
    ELSE angleAccuracy(aa)

overallDen == IF weightSum > 0 THEN weightSum ELSE 1

\* the accuracy comparePoses hands to updateScore
scoredAccuracyOverall(pa, aa) == overallNum(pa, aa) \div overallDen

scoredAccuracy(pa, aa) == angleAccuracy(aa)

comparisonOf(pa, aa) ==
    [overall_num |-> overallNum(pa, aa), angles |-> angleAccuracy(aa)]

\* playerPose and referencePose are the numbers of angles detected in the
\* two poses, pa and aa the accuracies comparePositions and compareAngles
\* returned.  What the two comparisons do to their smoothing histories is
\* in comparePositions and compareAngles; the action ComparePoses applies
\* them to poses before it comes here
comparePosesAlways(s, playerPose, referencePose, pa, aa) ==
    LET nowTimeSec == getGameTimeSec(s)
        s1 == updateNoPoseState(s, referencePose, playerPose, nowTimeSec)
    IN  updateScore(s1, scoredAccuracy(pa, aa), nowTimeSec,
                    freezeScoring(referencePose, playerPose))

comparePoses(s, playerPose, referencePose, pa, aa) ==
    IF s.isPlaying
    THEN LET nowTimeSec == getGameTimeSec(s)
             s1 == updateNoPoseState(s, referencePose, playerPose, nowTimeSec)
         IN  updateScore(s1, scoredAccuracy(pa, aa), nowTimeSec,
                         freezeScoring(referencePose, playerPose))
    ELSE s

comparePosesBranch(s, playerPose, referencePose, pa, aa) ==
    IF s.isPlaying
    THEN scoreBranch(s, scoredAccuracy(pa, aa), getGameTimeSec(s),
                     freezeScoring(referencePose, playerPose))
    ELSE "unscored"

\* compareAngles reports 0 when no pair of angles can be compared
angleAccuracyInputs(playerPose, referencePose) ==
    IF playerPose = 0 \/ referencePose = 0 THEN {0} ELSE AngleAccuracies

----------------------------------------------------------------------------
(* Normalization.  A landmark list is a function of the landmark id; an id  *)
(* the list has no entry for (landmarks[id] is undefined) has defined       *)
(* FALSE.  Divisions round down to the hundredth.                           *)

Landmark(x, y, visibility) ==
    [defined |-> TRUE, x |-> x, y |-> y, visibility |-> visibility]

Undefined == [defined |-> FALSE, x |-> 0, y |-> 0, visibility |-> 0]

identity(s) ==
    [s EXCEPT !.scaleFactorX = ScaleUnit, !.scaleFactorY = ScaleUnit,
              !.offsetX = 0, !.offsetY = 0]

getTorsoSize(landmarks) ==
    LET leftShoulder == landmarks[11]
        rightShoulder == landmarks[12]
        leftHip == landmarks[23]
        rightHip == landmarks[24]
    IN  [width |-> Max(Abs(rightShoulder.x - leftShoulder.x), MIN_TORSO_SIZE),
         height |-> Max(Abs((leftHip.y + rightHip.y) \div 2
                            - (leftShoulder.y + rightShoulder.y) \div 2),
                        MIN_TORSO_SIZE)]

getTorsoCenter(landmarks) ==
    LET leftShoulder == landmarks[11]
        rightShoulder == landmarks[12]
        leftHip == landmarks[23]
        rightHip == landmarks[24]
    IN  [x |-> (leftShoulder.x + rightShoulder.x + leftHip.x + rightHip.x) \div 4,
         y |-> (leftShoulder.y + rightShoulder.y + leftHip.y + rightHip.y) \div 4]

\* reading .x of an entry the list does not have raises a TypeError
torsoRaises(landmarks) == \E id \in TorsoIds : ~landmarks[id].defined

\* does calculateNormalization raise: it reads both torsos before it
\* assigns anything
calculateNormalizationRaises(playerLandmarks, referenceLandmarks) ==
    /\ NORMALIZE_BY_TORSO
    /\ torsoRaises(playerLandmarks) \/ torsoRaises(referenceLandmarks)

\* normalizePose on one landmark
normalizePose(s, lm) ==
    [lm EXCEPT !.x = (lm.x * s.scaleFactorX) \div ScaleUnit + s.offsetX,
               !.y = (lm.y * s.scaleFactorY) \div ScaleUnit + s.offsetY]

calculateNormalizationOfNormalized(s, playerLandmarks, referenceLandmarks) ==
    IF ~NORMALIZE_BY_TORSO THEN identity(s)
    ELSE IF calculateNormalizationRaises(playerLandmarks, referenceLandmarks)
    THEN s
    ELSE
      LET normalized == [id \in TorsoIds |-> normalizePose(s, playerLandmarks[id])]
          playerTorso == getTorsoSize(normalized)
          refTorso == getTorsoSize(referenceLandmarks)
          avgScale == ((refTorso.width * ScaleUnit) \div playerTorso.width
                       + (refTorso.height * ScaleUnit) \div playerTorso.height)
                      \div 2
          playerCenter == getTorsoCenter(normalized)
          refCenter == getTorsoCenter(referenceLandmarks)
      IN  [s EXCEPT
             !.scaleFactorX = avgScale,
             !.scaleFactorY = avgScale,
             !.offsetX = refCenter.x - (playerCenter.x * avgScale) \div ScaleUnit,
             !.offsetY = refCenter.y - (playerCenter.y * avgScale) \div ScaleUnit]

\* the state calculateNormalization leaves; when it raises, the state it
\* had when the error left it
calculateNormalization(s, playerLandmarks, referenceLandmarks) ==
    IF ~NORMALIZE_BY_TORSO THEN identity(s)
    ELSE IF calculateNormalizationRaises(playerLandmarks, referenceLandmarks)
    THEN s
    ELSE
      LET playerTorso == getTorsoSize(playerLandmarks)
          refTorso == getTorsoSize(referenceLandmarks)
          avgScale == ((refTorso.width * ScaleUnit) \div playerTorso.width
                       + (refTorso.height * ScaleUnit) \div playerTorso.height)
                      \div 2
          playerCenter == getTorsoCenter(playerLandmarks)
          refCenter == getTorsoCenter(referenceLandmarks)
      IN  [s EXCEPT
             !.scaleFactorX = avgScale,
             !.scaleFactorY = avgScale,
             !.offsetX = refCenter.x - (playerCenter.x * avgScale) \div ScaleUnit,
             !.offsetY = refCenter.y - (playerCenter.y * avgScale) \div ScaleUnit]

----------------------------------------------------------------------------
(* Pose comparison.  Angles are in thousandths of a degree, distances in    *)
(* thousandths of the frame, smoothing factors and the similarity threshold *)
(* in tenths.  A similarity is the numerator of a fraction whose            *)
(* denominator is SimilarityDen.  An accuracy is a fraction [num, den].     *)
(* compareAngles and comparePositions read and write their smoothing        *)
(* history: the operators take the history and return the new one with      *)
(* their result.                                                            *)

AngleUnit == 1000
DistanceUnit == 1000
Tenth == 10
ANGLE_SMOOTHING == 4
POSITION_SMOOTHING == 3
POSITION_THRESHOLD == 150
ANGLE_MATCH_SIMILARITY == 9
ANGLE_SIMILARITY_RANGE == 180
ANGLE_ALLOWED_MISSES == 2

Degrees(d) == d * AngleUnit
SimilarityDen == ANGLE_SIMILARITY_RANGE * AngleUnit

\* the order in which the loops visit the angle names and the joints
AngleOrder == <<"left_elbow", "right_elbow", "left_knee", "right_knee">>
JointOrder == <<11, 15>>

\* Object.entries(refAngles): the names the reference pose has an entry for
entries(refAngles) ==
    SelectSeq(AngleOrder, LAMBDA angleName : angleName \in DOMAIN refAngles)

smoothAngleUnsmoothed(history, angleName, playerAngle) == playerAngle

smoothAngle(history, angleName, playerAngle) ==
    IF history[angleName] # null
    THEN (ANGLE_SMOOTHING * playerAngle
          + (Tenth - ANGLE_SMOOTHING) * history[angleName]) \div Tenth
    ELSE playerAngle

angleSimilarity(smoothedPlayerAngle, refAngle) ==
    Max(0, SimilarityDen - Abs(smoothedPlayerAngle - refAngle))

angleIsMatch(similarity) ==
    similarity * Tenth >= ANGLE_MATCH_SIMILARITY * SimilarityDen

angleEntrySkipsAbsentPlayer(acc, angleName, refAngle, playerAngle) ==
    IF refAngle = null \/ playerAngle = null THEN acc
    ELSE
      LET smoothedPlayerAngle == smoothAngle(acc.history, angleName, playerAngle)
          similarity == angleSimilarity(smoothedPlayerAngle, refAngle)
          isMatch == angleIsMatch(similarity)
      IN  [acc EXCEPT !.history[angleName] = smoothedPlayerAngle,
                      !.matches = @ @@ (angleName :> isMatch),
                      !.similarities = @ @@ (angleName :> similarity),
                      !.matchedCount = IF isMatch THEN @ + 1 ELSE @,
                      !.count = @ + 1]

angleEntryCountsNullReference(acc, angleName, refAngle, playerAngle) ==
    IF refAngle = null \/ playerAngle = null
    THEN [acc EXCEPT !.matches = @ @@ (angleName :> FALSE),
                     !.similarities = @ @@ (angleName :> 0),
                     !.count = @ + 1]
    ELSE
      LET smoothedPlayerAngle == smoothAngle(acc.history, angleName, playerAngle)
          similarity == angleSimilarity(smoothedPlayerAngle, refAngle)
          isMatch == angleIsMatch(similarity)
      IN  [acc EXCEPT !.history[angleName] = smoothedPlayerAngle,
                      !.matches = @ @@ (angleName :> isMatch),
                      !.similarities = @ @@ (angleName :> similarity),
                      !.matchedCount = IF isMatch THEN @ + 1 ELSE @,
                      !.count = @ + 1]

\* one pass of the loop of compareAngles
angleEntry(acc, angleName, refAngle, playerAngle) ==
    IF refAngle = null THEN acc
    ELSE IF playerAngle = null
    THEN [acc EXCEPT !.matches = @ @@ (angleName :> FALSE),
                     !.similarities = @ @@ (angleName :> 0),
                     !.count = @ + 1]
    ELSE
      LET smoothedPlayerAngle == smoothAngle(acc.history, angleName, playerAngle)
          similarity == angleSimilarity(smoothedPlayerAngle, refAngle)
          isMatch == angleIsMatch(similarity)
      IN  [acc EXCEPT !.history[angleName] = smoothedPlayerAngle,
                      !.matches = @ @@ (angleName :> isMatch),
                      !.similarities = @ @@ (angleName :> similarity),
                      !.matchedCount = IF isMatch THEN @ + 1 ELSE @,
                      !.count = @ + 1]

RECURSIVE angleEntries(_, _, _, _)
angleEntries(acc, names, playerAngles, refAngles) ==
    IF names = <<>> THEN acc
    ELSE angleEntries(angleEntry(acc, Head(names), refAngles[Head(names)],
                                 playerAngles[Head(names)]),
                      Tail(names), playerAngles, refAngles)

angleLoop(history, playerAngles, refAngles) ==
    angleEntries([matches |-> <<>>, similarities |-> <<>>, count |-> 0,
                  matchedCount |-> 0, history |-> history],
                 entries(refAngles), playerAngles, refAngles)

compareAnglesNoAllowedMisses(history, playerAngles, refAngles) ==
    LET acc == angleLoop(history, playerAngles, refAngles) IN
    IF acc.count = 0
    THEN [accuracy |-> [num |-> 0, den |-> 1], matches |-> <<>>,
          similarities |-> <<>>, matchedCount |-> 0, totalAngles |-> 0,
          history |-> acc.history]
    ELSE LET effectiveTotal == Max(1, acc.count)
         IN  [accuracy |-> [num |-> Max(0, Min(effectiveTotal, acc.matchedCount)),
                            den |-> effectiveTotal],
              matches |-> acc.matches, similarities |-> acc.similarities,
              matchedCount |-> acc.matchedCount, totalAngles |-> acc.count,
              history |-> acc.history]

compareAngles(history, playerAngles, refAngles) ==
    LET acc == angleLoop(history, playerAngles, refAngles) IN
    IF acc.count = 0
    THEN [accuracy |-> [num |-> 0, den |-> 1], matches |-> <<>>,
          similarities |-> <<>>, matchedCount |-> 0, totalAngles |-> 0,
          history |-> acc.history]
    ELSE LET effectiveTotal == Max(1, acc.count - ANGLE_ALLOWED_MISSES)
         IN  [accuracy |-> [num |-> Max(0, Min(effectiveTotal, acc.matchedCount)),
                            den |-> effectiveTotal],
              matches |-> acc.matches, similarities |-> acc.similarities,
              matchedCount |-> acc.matchedCount, totalAngles |-> acc.count,
              history |-> acc.history]

\* a landmark with its depth; NoJoint is an index the list has no entry for
Joint(x, y, z, visibility) ==
    [defined |-> TRUE, x |-> x, y |-> y, z |-> z, visibility |-> visibility]

NoJoint == [defined |-> FALSE, x |-> 0, y |-> 0, z |-> 0, visibility |-> 0]

\* Math.sqrt, rounded down; n is a sum of squares of hundredths and the
\* root is in thousandths
MaxDistance == 2 * DistanceUnit

\* the greatest r in lo..hi with r * r <= m
RECURSIVE rootBetween(_, _, _)
rootBetween(m, lo, hi) ==
    IF lo >= hi THEN lo
    ELSE LET mid == (lo + hi + 1) \div 2
         IN  IF mid * mid <= m THEN rootBetween(m, mid, hi)
             ELSE rootBetween(m, lo, mid - 1)

sqrt(n) == rootBetween(n * Tenth * Tenth, 0, MaxDistance)

jointDistance(playerJoint, refJoint) ==
    sqrt((playerJoint.x - refJoint.x) * (playerJoint.x - refJoint.x)
         + (playerJoint.y - refJoint.y) * (playerJoint.y - refJoint.y)
         + (playerJoint.z - refJoint.z) * (playerJoint.z - refJoint.z))

smoothDistance(history, jointIdx, distance) ==
    IF history[jointIdx] # null
    THEN (POSITION_SMOOTHING * distance
          + (Tenth - POSITION_SMOOTHING) * history[jointIdx]) \div Tenth
    ELSE distance

positionJointReadsVisibilityFirst(acc, jointIdx, playerJoint, refJoint) ==
    IF ~playerJoint.defined \/ ~refJoint.defined
    THEN [acc EXCEPT !.raised = TRUE]
    ELSE IF playerJoint.visibility < MinVisibility
            \/ refJoint.visibility < MinVisibility
    THEN [acc EXCEPT !.matches = @ @@ (jointIdx :> "null")]
    ELSE
      LET distance == smoothDistance(acc.history, jointIdx,
                                     jointDistance(playerJoint, refJoint))
          isMatch == distance < POSITION_THRESHOLD
      IN  [acc EXCEPT !.history[jointIdx] = distance,
                      !.totalDistance = @ + distance,
                      !.count = @ + 1,
                      !.matches = @ @@ (jointIdx :> IF isMatch THEN "true"
                                                               ELSE "false"),
                      !.matchedCount = IF isMatch THEN @ + 1 ELSE @]

\* one pass of the loop of comparePositions; the entry of matches is the
\* text of the JavaScript value
positionJoint(acc, jointIdx, playerJoint, refJoint) ==
    IF ~playerJoint.defined \/ ~refJoint.defined
       \/ playerJoint.visibility < MinVisibility
       \/ refJoint.visibility < MinVisibility
    THEN [acc EXCEPT !.matches = @ @@ (jointIdx :> "null")]
    ELSE
      LET distance == smoothDistance(acc.history, jointIdx,
                                     jointDistance(playerJoint, refJoint))
          isMatch == distance < POSITION_THRESHOLD
      IN  [acc EXCEPT !.history[jointIdx] = distance,
                      !.totalDistance = @ + distance,
                      !.count = @ + 1,
                      !.matches = @ @@ (jointIdx :> IF isMatch THEN "true"
                                                               ELSE "false"),
                      !.matchedCount = IF isMatch THEN @ + 1 ELSE @]

RECURSIVE positionJoints(_, _, _, _)
positionJoints(acc, joints, playerLandmarks, refLandmarks) ==
    IF joints = <<>> THEN acc
    ELSE positionJoints(positionJoint(acc, Head(joints),
                                      playerLandmarks[Head(joints)],
                                      refLandmarks[Head(joints)]),
                        Tail(joints), playerLandmarks, refLandmarks)

\* totalDistance / count || 1.0 is 1.0 when the quotient is NaN (count 0)
\* and when it is 0; matchedCount / count || 0 is 0 when count is 0
comparePositions(history, playerLandmarks, refLandmarks) ==
    LET acc == positionJoints([matches |-> <<>>, totalDistance |-> 0,
                               count |-> 0, matchedCount |-> 0,
                               raised |-> FALSE, history |-> history],
                              JointOrder, playerLandmarks, refLandmarks)
        avgDistance == IF acc.count = 0 \/ acc.totalDistance = 0
                       THEN DistanceUnit
                       ELSE acc.totalDistance \div acc.count
    IN  [score |-> Max(0, DistanceUnit - avgDistance),
         accuracy |-> IF acc.count = 0 THEN [num |-> 0, den |-> 1]
                      ELSE [num |-> acc.matchedCount, den |-> acc.count],
         matches |-> acc.matches, avgDistance |-> avgDistance,
         matchedCount |-> acc.matchedCount, totalJoints |-> acc.count,
         raised |-> acc.raised, history |-> acc.history]

----------------------------------------------------------------------------
(* Session lifecycle *)

resetGame(s) ==
    [resetNoPoseState(s) EXCEPT
        !.isCountdownActive = FALSE,
        !.positionSmoothHistory = NoHistory(ScoringJoints),
        !.angleSmoothHistory = NoHistory(AngleNames),
        !.score = 0, !.combo = 0, !.currentAccuracy = 0,
        !.lastScoreTimeSec = null,
        !.goodTimeAccumSec = 0, !.goodStreakSec = 0,
        !.statsMaxCombo = 0, !.statsAverageAccuracyAccum = 0,
        !.statsTrackedTimeSec = 0,
        !.videoPaused = TRUE, !.videoTime = 0,
        !.isPlaying = FALSE]

\* play() is refused when the browser blocks autoplay: the video stays
\* paused and showAudioFallback puts its overlay on the page
startSongPlaybackFromBeginning(s, autoplayAllowed) ==
    LET s1 == [s EXCEPT !.isPlaying = TRUE,
                        !.lastScoreTimeSec = getGameTimeSec(s),
                        !.goodTimeAccumSec = 0, !.goodStreakSec = 0,
                        !.combo = 0]
        s2 == [resetNoPoseState(s1) EXCEPT !.videoTime = 0]
    IN  IF autoplayAllowed
        THEN [s2 EXCEPT !.videoPaused = FALSE]
        ELSE [s2 EXCEPT !.audioOverlays = @ + 1]

\* startSongWithCountdown up to its first await: a coroutine is the number
\* of the await it is suspended in (1..3)
startSongWithCountdown(s) ==
    IF ~s.isCalibrated \/ s.isCountdownActive
    THEN s
    ELSE [resetGame(s) EXCEPT !.isCountdownActive = TRUE,
                              !.countdowns = Append(@, 1)]

startGameAfterCalibration(s) == startSongWithCountdown(s)

RemoveAt(seq, i) == SubSeq(seq, 1, i - 1) \o SubSeq(seq, i + 1, Len(seq))

\* startSongWithCountdown resumed from the await of coroutine i, up to its
\* next await or its return; the finally block runs on every return
countdownResume(s, i, autoplayAllowed) ==
    LET k == s.countdowns[i] IN
    IF ~s.isCountdownActive
    THEN [s EXCEPT !.countdowns = RemoveAt(@, i), !.isCountdownActive = FALSE]
    ELSE IF k < 3
    THEN [s EXCEPT !.countdowns[i] = k + 1]
    ELSE [startSongPlaybackFromBeginning(s, autoplayAllowed) EXCEPT
             !.countdowns = RemoveAt(@, i), !.isCountdownActive = FALSE]

startCalibrationKeepsHistories(s) ==
    [resetNoPoseState(s) EXCEPT
        !.isCountdownActive = FALSE,
        !.isCalibrated = FALSE,
        !.isPlaying = FALSE,
        !.calibrationFrames = 0,
        !.videoTime = 0, !.videoPaused = TRUE]

startCalibration(s) ==
    [resetNoPoseState(s) EXCEPT
        !.isCountdownActive = FALSE,
        !.isCalibrated = FALSE,
        !.isPlaying = FALSE,
        !.calibrationFrames = 0,
        !.positionSmoothHistory = NoHistory(ScoringJoints),
        !.angleSmoothHistory = NoHistory(AngleNames),
        !.videoTime = 0, !.videoPaused = TRUE]

skipCalibration(s) ==
    [identity(s) EXCEPT !.isCalibrated = TRUE, !.pendingStarts = @ + 1]

togglePlayPauseKeepsScoreTime(s) ==
    IF ~s.isCalibrated THEN s
    ELSE IF s.isCountdownActive THEN s
    ELSE IF ~s.isPlaying
    THEN IF s.videoTime >= Duration
         THEN startGameAfterCalibration([s EXCEPT !.isPlaying = FALSE])
         ELSE [resetNoPoseState(s) EXCEPT
                  !.isPlaying = TRUE,
                  !.videoPaused = FALSE]
    ELSE [resetNoPoseState(s) EXCEPT
             !.isPlaying = FALSE,
             !.videoPaused = TRUE]

togglePlayPause(s) ==
    IF ~s.isCalibrated THEN s
    ELSE IF s.isCountdownActive THEN s
    ELSE IF ~s.isPlaying
    THEN IF s.videoTime >= Duration
         THEN startGameAfterCalibration([s EXCEPT !.isPlaying = FALSE])
         ELSE [resetNoPoseState(s) EXCEPT
                  !.isPlaying = TRUE,
                  !.videoPaused = FALSE,
                  !.lastScoreTimeSec = getGameTimeSec(s)]
    ELSE [resetNoPoseState(s) EXCEPT
             !.isPlaying = FALSE,
             !.videoPaused = TRUE,
             !.lastScoreTimeSec = null]

handleSongEnded(s) ==
    IF s.isCountdownActive \/ ~s.isCalibrated THEN s
    ELSE [resetNoPoseState(s) EXCEPT !.isPlaying = FALSE,
                                     !.lastScoreTimeSec = null]

retrySong(s) == IF ~s.isCalibrated THEN s ELSE startGameAfterCalibration(s)

\* the click handler of the overlay of showAudioFallback
audioFallbackClick(s) ==
    LET s1 == [s EXCEPT !.videoTime = 0, !.videoPaused = FALSE]
    IN  [s1 EXCEPT !.lastScoreTimeSec = getGameTimeSec(s1),
                   !.isPlaying = TRUE,
                   !.audioOverlays = @ - 1]

----------------------------------------------------------------------------
(* The detector callback *)

handleCalibrationKeepsCount(s, playerLandmarks, referencePose, pa, aa, playerTorso, referenceTorso) ==
    IF referencePose = null THEN s
    ELSE
      LET s1 == comparePoses(s, playerLandmarks, referencePose, pa, aa) IN
      IF overallNum(pa, aa) >= MIN_CALIBRATION_QUALITY * overallDen
      THEN LET s2 == [s1 EXCEPT !.calibrationFrames = @ + 1] IN
           IF s2.calibrationFrames >= CALIBRATION_FRAMES
           THEN IF calculateNormalizationRaises(playerTorso, referenceTorso)
                THEN [s2 EXCEPT !.processingFrames = FALSE]
                ELSE [calculateNormalization(s2, playerTorso, referenceTorso)
                         EXCEPT !.isCalibrated = TRUE, !.pendingStarts = @ + 1]
           ELSE s2
      ELSE s1

\* playerTorso and referenceTorso are the torso entries of the landmark lists
\* of the performer and of the reference pose.  An error of
\* calculateNormalization leaves the callback and, through the detector's
\* send, the loop that submits the frames: no frame is processed after it
handleCalibration(s, playerLandmarks, referencePose, pa, aa, playerTorso, referenceTorso) ==
    IF referencePose = null THEN s
    ELSE
      LET s1 == comparePoses(s, playerLandmarks, referencePose, pa, aa) IN
      IF overallNum(pa, aa) >= MIN_CALIBRATION_QUALITY * overallDen
      THEN LET s2 == [s1 EXCEPT !.calibrationFrames = @ + 1] IN
           IF s2.calibrationFrames >= CALIBRATION_FRAMES
           THEN IF calculateNormalizationRaises(playerTorso, referenceTorso)
                THEN [s2 EXCEPT !.processingFrames = FALSE]
                ELSE [calculateNormalization(s2, playerTorso, referenceTorso)
                         EXCEPT !.isCalibrated = TRUE, !.pendingStarts = @ + 1]
           ELSE s2
      ELSE [s1 EXCEPT !.calibrationFrames = 0]

\* does this callback reach comparePoses
compares(s, playerLandmarks, referencePose) ==
    IF playerLandmarks # null /\ ~s.isCalibrated
    THEN referencePose # null
    ELSE /\ s.isCalibrated
         /\ (IF playerLandmarks # null THEN TRUE ELSE s.currentPlayerPose # null)
         /\ referencePose # null
         /\ s.isPlaying

onPoseResults(s, playerLandmarks, referencePose, pa, aa, playerTorso, referenceTorso) ==
    LET s1 == IF playerLandmarks # null
              THEN [s EXCEPT !.currentPlayerPose = playerLandmarks]
              ELSE s
    IN  IF playerLandmarks # null /\ ~s1.isCalibrated
        THEN handleCalibration(s1, playerLandmarks, referencePose, pa, aa,
                               playerTorso, referenceTorso)
        ELSE IF ~s1.isCalibrated THEN s1
        ELSE IF s1.currentPlayerPose # null /\ referencePose # null /\ s1.isPlaying
        THEN comparePoses(s1, s1.currentPlayerPose, referencePose, pa, aa)
        ELSE s1

\* does this callback reach calculateNormalization
calibrates(s, playerLandmarks, referencePose, pa, aa) ==
    /\ playerLandmarks # null /\ ~s.isCalibrated
    /\ referencePose # null
    /\ overallNum(pa, aa) >= MIN_CALIBRATION_QUALITY * overallDen
    /\ s.calibrationFrames + 1 >= CALIBRATION_FRAMES

----------------------------------------------------------------------------
(* The torso landmarks of the poses that calibration sees: a performer      *)
(* smaller than the dancer of the reference, seen whole or with a shoulder  *)
(* the detector is unsure of (the detector's list always has all its        *)
(* entries), and a reference pose with its torso whole, with an unsure hip, *)
(* or with no entry for a hip.                                              *)

ReferenceTorso ==
    (11 :> Landmark(40, 20, 100)) @@ (12 :> Landmark(60, 20, 100)) @@
    (23 :> Landmark(40, 60, 100)) @@ (24 :> Landmark(60, 60, 100))

PlayerTorso ==
    (11 :> Landmark(45, 30, 100)) @@ (12 :> Landmark(55, 30, 100)) @@
    (23 :> Landmark(45, 50, 100)) @@ (24 :> Landmark(55, 50, 100))

lowVisibility(landmarks, id) ==
    [landmarks EXCEPT ![id].visibility = MinVisibility - 1]

without(landmarks, id) == [landmarks EXCEPT ![id] = Undefined]

PlayerTorsos == {PlayerTorso, lowVisibility(PlayerTorso, 11)}

ReferenceTorsos ==
    {ReferenceTorso, lowVisibility(ReferenceTorso, 23),
     without(ReferenceTorso, 24)}

torsoTrusted(landmarks) ==
    \A id \in TorsoIds :
        landmarks[id].defined /\ landmarks[id].visibility >= MinVisibility

\* what a call of calculateNormalization was given: the two landmark lists
\* and the transform it found
calibrationOf(playerTorso, referenceTorso) ==
    [called |-> TRUE,
     playerTrusted |-> torsoTrusted(playerTorso),
     referenceTrusted |-> torsoTrusted(referenceTorso),
     raised |-> calculateNormalizationRaises(playerTorso, referenceTorso),
     playerLandmarks |-> playerTorso,
     referenceLandmarks |-> referenceTorso,
     before |-> <<scaleFactorX, scaleFactorY, offsetX, offsetY>>]

----------------------------------------------------------------------------
(* The state machine *)

Init ==
    /\ score = 0 /\ combo = 0 /\ currentAccuracy = 0
    /\ lastScoreTimeSec = null
    /\ goodTimeAccumSec = 0 /\ goodStreakSec = 0
    /\ statsMaxCombo = 0 /\ statsAverageAccuracyAccum = 0
    /\ statsTrackedTimeSec = 0
    /\ isPlaying = FALSE /\ isCalibrated = FALSE /\ isCountdownActive = FALSE
    /\ calibrationFrames = 0
    /\ currentPlayerPose = null
    /\ scaleFactorX = ScaleUnit /\ scaleFactorY = ScaleUnit
    /\ offsetX = 0 /\ offsetY = 0
    /\ processingFrames = TRUE
    /\ positionSmoothHistory = NoHistory(ScoringJoints)
    /\ angleSmoothHistory = NoHistory(AngleNames)
    /\ referenceLowAnglesSinceSec = null /\ playerLowAnglesSinceSec = null
    /\ noPoseWarningMessage = {}
    /\ videoTime = 0 /\ videoPaused = TRUE
    /\ pendingStarts = 0 /\ countdowns = <<>> /\ audioOverlays = 0
    /\ lastCall = "none"
    /\ comparison = NoComparison
    /\ calibration = NoCalibration
    /\ scoreControl = NoScoreControl
    /\ compared = NoCompared
    /\ frozenAt = null
    /\ clicks = 0 /\ frames = 0
    /\ poses = <<>> /\ lastSearchIndex = 0 /\ lookup = NoLookup

Bounded(s) ==
    /\ s.pendingStarts <= MaxPendingStarts
    /\ Len(s.countdowns) <= MaxCountdowns
    /\ s.audioOverlays <= MaxOverlays

\* a handler other than the detector callback: it ends the run of
\* evaluations that frozenAt describes
Handler(s) ==
    /\ Bounded(s)
    /\ Commit(s)
    /\ lastCall' = "none"
    /\ comparison' = NoComparison
    /\ calibration' = NoCalibration
    /\ scoreControl' = NoScoreControl
    /\ compared' = NoCompared
    /\ frozenAt' = null
    /\ UNCHANGED frames

\* a handler run by a gesture of the user
Click(s) ==
    /\ clicks < MaxClicks
    /\ clicks' = clicks + 1
    /\ Handler(s)

\* a handler run by a timer or a media event
Event(s) ==
    /\ UNCHANGED clicks
    /\ Handler(s)

\* the media clock, advanced by the browser while the video plays
Tick ==
    /\ ~videoPaused
    /\ \E t \in SampleTimes :
        /\ t > videoTime
        /\ Commit([S EXCEPT !.videoTime = t])
    /\ lastCall' = "none"
    /\ comparison' = NoComparison
    /\ calibration' = NoCalibration
    /\ scoreControl' = NoScoreControl
    /\ compared' = NoCompared
    /\ UNCHANGED <<frozenAt, clicks, frames>>

\* the frame slider: videoElement.currentTime = targetTime
Seek ==
    /\ clicks < MaxClicks
    /\ clicks' = clicks + 1
    /\ \E t \in SampleTimes :
        /\ t # videoTime
        /\ Commit([S EXCEPT !.videoTime = t])
    /\ lastCall' = "none"
    /\ comparison' = NoComparison
    /\ calibration' = NoCalibration
    /\ scoreControl' = NoScoreControl
    /\ compared' = NoCompared
    /\ UNCHANGED <<frozenAt, frames>>

\* the video's ended event: playback reached the end of the video
VideoEnded ==
    /\ ~videoPaused
    /\ videoTime = Duration
    /\ Event(handleSongEnded([S EXCEPT !.videoPaused = TRUE]))

StartCalibration == Click(startCalibration(S))

SkipCalibration == Click(skipCalibration(S))

\* the timer set by skipCalibration or handleCalibration fires
StartGameTimer ==
    /\ pendingStarts > 0
    /\ Event(startGameAfterCalibration([S EXCEPT !.pendingStarts = @ - 1]))

\* a waitMs timer fires; of two coroutines suspended in the same await the
\* one that started first wakes first
CountdownResume ==
    \E i \in 1..Len(countdowns), autoplayAllowed \in BOOLEAN :
        /\ \A j \in 1..(i - 1) : countdowns[j] > countdowns[i]
        /\ Event(countdownResume(S, i, autoplayAllowed))

TogglePlayPause == Click(togglePlayPause(S))

ResetGame == Click(resetGame(S))

RetrySong == Click(retrySong(S))

AudioFallbackClick ==
    /\ audioOverlays > 0
    /\ Click(audioFallbackClick(S))

\* a detector result: the performer's landmarks or none, with the reference
\* pose the lookup resolves and the accuracies the comparison reports
OnPoseResults ==
    /\ processingFrames
    /\ frames < MaxFrames
    /\ frames' = frames + 1
    /\ UNCHANGED clicks
    /\ \E playerLandmarks \in {null} \cup (0..MaxDetected),
       referencePose \in {null} \cup (0..MaxDetected) :
      LET does == compares(S, playerLandmarks, referencePose)
          player == IF playerLandmarks # null THEN playerLandmarks
                    ELSE currentPlayerPose
      IN
      \E pa \in (IF does THEN PositionAccuracies ELSE {0}),
         aa \in (IF does THEN angleAccuracyInputs(player, referencePose) ELSE {0}) :
        LET calls == calibrates(S, playerLandmarks, referencePose, pa, aa) IN
        \E playerTorso \in (IF calls THEN PlayerTorsos ELSE {PlayerTorso}),
           referenceTorso \in (IF calls THEN ReferenceTorsos ELSE {ReferenceTorso}) :
          LET s == onPoseResults(S, playerLandmarks, referencePose, pa, aa,
                                 playerTorso, referenceTorso)
          IN
          /\ Bounded(s)
          /\ Commit(s)
          /\ lastCall' = IF does
                         THEN comparePosesBranch(S, player, referencePose, pa, aa)
                         ELSE "none"
          /\ comparison' = IF does THEN comparisonOf(pa, aa) ELSE NoComparison
          /\ frozenAt' =
               IF does /\ isPlaying
               THEN (IF comparePosesBranch(S, player, referencePose, pa, aa) = "frozen"
                     THEN videoTime ELSE null)
               ELSE frozenAt
          /\ scoreControl' = IF does /\ isPlaying
                             THEN scoreControlOf(referencePose, player)
                             ELSE NoScoreControl
          /\ compared' = NoCompared
          /\ calibration' =
               IF calls
               THEN calibrationOf(playerTorso, referenceTorso)
               ELSE NoCalibration

Next ==
    \/ Tick
    \/ Seek
    \/ VideoEnded
    \/ StartCalibration
    \/ SkipCalibration
    \/ StartGameTimer
    \/ CountdownResume
    \/ TogglePlayPause
    \/ ResetGame
    \/ RetrySong
    \/ AudioFallbackClick
    \/ OnPoseResults

Spec == Init /\ [][Next]_vars

----------------------------------------------------------------------------
(* Calibration and recalibration with torsos of several sizes and places *)

\* the shoulders at the height top, the hips at the height bottom
Torso(left, right, top, bottom) ==
    (11 :> Landmark(left, top, 100)) @@ (12 :> Landmark(right, top, 100)) @@
    (23 :> Landmark(left, bottom, 100)) @@ (24 :> Landmark(right, bottom, 100))

NormalizePlayerTorsos ==
    {PlayerTorso, Torso(20, 40, 10, 50), lowVisibility(Torso(30, 50, 40, 60), 11)}

NormalizeReferenceTorsos ==
    {ReferenceTorso, Torso(30, 70, 30, 70), without(ReferenceTorso, 24)}

\* a detector result with a full performer pose while a reference pose is
\* resolved: onPoseResults with the torsos of NormalizePlayerTorsos and
\* NormalizeReferenceTorsos
CalibrationResult ==
    /\ processingFrames
    /\ frames < MaxCalibrationSamples
    /\ frames' = frames + 1
    /\ UNCHANGED clicks
    /\ \E pa \in PositionAccuracies, aa \in AngleAccuracies :
        LET does == compares(S, MaxDetected, MaxDetected)
            calls == calibrates(S, MaxDetected, MaxDetected, pa, aa)
        IN
        \E playerTorso \in (IF calls THEN NormalizePlayerTorsos ELSE {PlayerTorso}),
           referenceTorso \in (IF calls THEN NormalizeReferenceTorsos
                               ELSE {ReferenceTorso}) :
          LET s == onPoseResults(S, MaxDetected, MaxDetected, pa, aa,
                                 playerTorso, referenceTorso)
          IN
          /\ Bounded(s)
          /\ Commit(s)
          /\ lastCall' = IF does
                         THEN comparePosesBranch(S, MaxDetected, MaxDetected, pa, aa)
                         ELSE "none"
          /\ comparison' = IF does THEN comparisonOf(pa, aa) ELSE NoComparison
          /\ frozenAt' =
               IF does /\ isPlaying
               THEN (IF comparePosesBranch(S, MaxDetected, MaxDetected, pa, aa) = "frozen"
                     THEN videoTime ELSE null)
               ELSE frozenAt
          /\ scoreControl' = IF does /\ isPlaying
                             THEN scoreControlOf(MaxDetected, MaxDetected)
                             ELSE NoScoreControl
          /\ compared' = NoCompared
          /\ calibration' = IF calls
                            THEN calibrationOf(playerTorso, referenceTorso)
                            ELSE NoCalibration

NextNormalize == CalibrationResult \/ StartCalibration \/ StartGameTimer

SpecNormalize == Init /\ [][NextNormalize]_vars

----------------------------------------------------------------------------
(* The angles of a pose.  computeAngle works on x and y.  The cosine is     *)
(* kept exact as the dot product over the root of den2, the product of the  *)
(* squared lengths of the two vectors; the epsilon added to the             *)
(* denominator shows only where that product is 0.  Math.acos is rounded    *)
(* down to the angles of AngleGrid, whose squared cosines are fractions.    *)

NaN == 0 - 2

\* GameConfig.ANGLE_JOINTS: point1, vertex, point2
ANGLE_JOINTS(angleName) ==
    IF angleName = "left_elbow" THEN <<11, 13, 15>>
    ELSE IF angleName = "right_elbow" THEN <<12, 14, 16>>
    ELSE IF angleName = "left_knee" THEN <<23, 25, 27>>
    ELSE <<24, 26, 28>>

AngleLandmarkIds == {11, 12, 13, 14, 15, 16, 23, 24, 25, 26, 27, 28}

\* an angle of the grid with the sign and the square of its cosine
AngleGrid ==
    { [deg |-> 0, sign |-> 1, num |-> 1, den |-> 1],
      [deg |-> 30, sign |-> 1, num |-> 3, den |-> 4],
      [deg |-> 45, sign |-> 1, num |-> 1, den |-> 2],
      [deg |-> 60, sign |-> 1, num |-> 1, den |-> 4],
      [deg |-> 90, sign |-> 0, num |-> 0, den |-> 1],
      [deg |-> 120, sign |-> 0 - 1, num |-> 1, den |-> 4],
      [deg |-> 135, sign |-> 0 - 1, num |-> 1, den |-> 2],
      [deg |-> 150, sign |-> 0 - 1, num |-> 3, den |-> 4],
      [deg |-> 180, sign |-> 0 - 1, num |-> 1, den |-> 1] }

\* dot / (mag1 * mag2 + 1e-8): 0 / 1e-8 is 0 when a vector has no length
cosine(dot, den2) ==
    IF den2 = 0 THEN [nan |-> FALSE, dot |-> 0, den2 |-> 1]
    ELSE [nan |-> FALSE, dot |-> dot, den2 |-> den2]

\* dot / (mag1 * mag2): 0 / 0 is NaN
cosineNoEpsilon(dot, den2) ==
    IF den2 = 0 THEN [nan |-> TRUE, dot |-> 0, den2 |-> 1]
    ELSE [nan |-> FALSE, dot |-> dot, den2 |-> den2]

\* Math.max(-1, Math.min(1, cosAngle)); NaN stays NaN
clampCosine(c) ==
    IF c.nan THEN c
    ELSE IF c.dot * c.dot > c.den2
    THEN [c EXCEPT !.dot = IF c.dot > 0 THEN 1 ELSE 0 - 1, !.den2 = 1]
    ELSE c

\* is the cosine c at most the cosine of the grid angle g
cosineAtMost(c, g) ==
    IF g.sign > 0
    THEN c.dot < 0 \/ c.dot * c.dot * g.den <= g.num * c.den2
    ELSE IF g.sign = 0 THEN c.dot <= 0
    ELSE c.dot < 0 /\ c.dot * c.dot * g.den >= g.num * c.den2

\* Math.acos(c) * (180 / Math.PI)
acosDegrees(c) ==
    IF c.nan THEN NaN
    ELSE LET below == {g \in AngleGrid : cosineAtMost(c, g)}
         IN  Degrees((CHOOSE g \in below :
                         \A h \in below : h.deg <= g.deg).deg)

computeAngleNoEpsilon(p1, vertex, p2) ==
    LET v1 == [x |-> p1.x - vertex.x, y |-> p1.y - vertex.y]
        v2 == [x |-> p2.x - vertex.x, y |-> p2.y - vertex.y]
        dot == v1.x * v2.x + v1.y * v2.y
        den2 == (v1.x * v1.x + v1.y * v1.y) * (v2.x * v2.x + v2.y * v2.y)
    IN  acosDegrees(clampCosine(cosineNoEpsilon(dot, den2)))

computeAngle(p1, vertex, p2) ==
    LET v1 == [x |-> p1.x - vertex.x, y |-> p1.y - vertex.y]
        v2 == [x |-> p2.x - vertex.x, y |-> p2.y - vertex.y]
        dot == v1.x * v2.x + v1.y * v2.y
        den2 == (v1.x * v1.x + v1.y * v1.y) * (v2.x * v2.x + v2.y * v2.y)
    IN  acosDegrees(clampCosine(cosine(dot, den2)))

calculateAngles(landmarks) ==
    [angleName \in AngleNames |->
        LET pt1 == landmarks[ANGLE_JOINTS(angleName)[1]]
            vtx == landmarks[ANGLE_JOINTS(angleName)[2]]
            pt2 == landmarks[ANGLE_JOINTS(angleName)[3]]
        IN  IF ~pt1.defined \/ ~vtx.defined \/ ~pt2.defined
               \/ pt1.visibility < MinVisibility
               \/ vtx.visibility < MinVisibility
               \/ pt2.visibility < MinVisibility
            THEN null
            ELSE computeAngle(pt1, vtx, pt2)]

\* a landmark of the left arm is missing, hardly visible or at one of five
\* places; the right arm is stretched, the left knee is at a right angle and
\* the right ankle is missing
ArmLandmarks ==
    { Undefined, Landmark(50, 50, MinVisibility - 1),
      Landmark(50, 50, 90), Landmark(60, 50, 90), Landmark(50, 60, 90),
      Landmark(40, 50, 90), Landmark(60, 60, 90) }

AnglePoses ==
    { [id \in AngleLandmarkIds |->
          IF id = 11 THEN a ELSE IF id = 13 THEN b ELSE IF id = 15 THEN c
          ELSE IF id = 12 THEN Landmark(30, 20, 90)
          ELSE IF id = 14 THEN Landmark(30, 30, 90)
          ELSE IF id = 16 THEN Landmark(30, 40, 90)
          ELSE IF id = 23 THEN Landmark(45, 60, 90)
          ELSE IF id = 25 THEN Landmark(45, 75, 90)
          ELSE IF id = 27 THEN Landmark(55, 75, 90)
          ELSE IF id = 28 THEN Undefined
          ELSE Landmark(55, 60, 90)] :
        a \in ArmLandmarks, b \in ArmLandmarks, c \in ArmLandmarks }

\* calculateAngles applied to a pose
CalculateAngles ==
    /\ frames < MaxAnglePoses
    /\ frames' = frames + 1
    /\ \E landmarks \in AnglePoses :
         compared' = [called |-> FALSE, calculated |-> TRUE,
                      landmarks |-> landmarks,
                      angles |-> calculateAngles(landmarks)]
    /\ Commit(S)
    /\ lastCall' = "none"
    /\ comparison' = NoComparison
    /\ calibration' = NoCalibration
    /\ scoreControl' = NoScoreControl
    /\ frozenAt' = null
    /\ UNCHANGED clicks

NextAngles == CalculateAngles

SpecAngles == Init /\ [][NextAngles]_vars

----------------------------------------------------------------------------
(* The comparison of two poses, with the poses themselves *)

\* the angles calculateAngles found in the performer's pose: the left
\* elbow is unseen, at 90 or at 150 degrees, the right elbow unseen or at 90
\* degrees, the knees both unseen or both at 90 degrees
PlayerAngleSets ==
    { playerAngles \in [AngleNames -> {null, Degrees(90), Degrees(150)}] :
        /\ playerAngles["right_elbow"] # Degrees(150)
        /\ playerAngles["left_knee"] # Degrees(150)
        /\ playerAngles["right_knee"] = playerAngles["left_knee"] }

\* the angles of a reference pose: an object that may lack names and may
\* hold null
ReferenceAngleSets ==
    { <<>>,
      [angleName \in AngleNames |-> null],
      [angleName \in {"left_elbow"} |-> Degrees(90)],
      [angleName \in {"left_elbow"} |-> Degrees(150)],
      [angleName \in AngleNames |-> Degrees(120)],
      [angleName \in AngleNames \ {"right_knee"} |->
          IF angleName = "left_elbow" THEN Degrees(90)
          ELSE IF angleName = "right_elbow" THEN Degrees(150) ELSE null],
      [angleName \in AngleNames |->
          IF angleName = "left_knee" THEN Degrees(150) ELSE Degrees(90)] }

ReferenceJoint == Joint(50, 50, 0, 90)

\* a joint of the performer is missing, hardly visible, on the
\* reference's, near it or far from it; the wrist is hardly visible, on the
\* reference's or far from it
PlayerJoints ==
    { NoJoint,
      Joint(50, 50, 0, MinVisibility - 1),
      ReferenceJoint,
      Joint(60, 50, 0, 90),
      Joint(80, 90, 0, 90) }

PlayerLandmarkSets ==
    { playerLandmarks \in [ScoringJoints -> PlayerJoints] :
        playerLandmarks[15] \notin {NoJoint, Joint(60, 50, 0, 90)} }

ReferenceLandmarkSets ==
    { [jointIdx \in ScoringJoints |-> ReferenceJoint],
      [jointIdx \in ScoringJoints |->
          IF jointIdx = 11 THEN Joint(50, 50, 0, MinVisibility - 1)
          ELSE ReferenceJoint],
      [jointIdx \in ScoringJoints |->
          IF jointIdx = 15 THEN NoJoint ELSE ReferenceJoint] }

NoAngles == [angleName \in AngleNames |-> null]
NoLandmarks == [jointIdx \in ScoringJoints |-> NoJoint]

\* the poses of one comparison: the angles vary over a pose without
\* landmarks, or the landmarks vary over a pose without angles
ComparisonInputs ==
    { [playerAngles |-> pa, refAngles |-> ra,
       playerLandmarks |-> NoLandmarks, refLandmarks |-> NoLandmarks] :
         pa \in PlayerAngleSets, ra \in ReferenceAngleSets }
    \cup
    { [playerAngles |-> NoAngles, refAngles |-> <<>>,
       playerLandmarks |-> pl, refLandmarks |-> rl] :
         pl \in PlayerLandmarkSets, rl \in ReferenceLandmarkSets }

countDetectedAngles(angles) ==
    Cardinality({angleName \in AngleNames \cap DOMAIN angles :
                    angles[angleName] # null})

\* an accuracy in tenths, rounded down
tenths(accuracy) == (accuracy.num * Tenth) \div accuracy.den

\* comparePoses on a pair of poses: both comparisons, then the scoring
ComparePoses ==
    /\ frames < MaxCompares
    /\ frames' = frames + 1
    /\ UNCHANGED clicks
    /\ \E in \in ComparisonInputs :
         LET positionResult == comparePositions(positionSmoothHistory,
                                   in.playerLandmarks, in.refLandmarks)
             angleResult == compareAngles(angleSmoothHistory,
                                          in.playerAngles, in.refAngles)
             s1 == [S EXCEPT !.positionSmoothHistory = positionResult.history,
                             !.angleSmoothHistory = angleResult.history]
             s == comparePoses(s1, countDetectedAngles(in.playerAngles),
                               countDetectedAngles(in.refAngles),
                               tenths(positionResult.accuracy),
                               tenths(angleResult.accuracy))
         IN  /\ Commit(s)
             /\ compared' = [called |-> TRUE,
                             calculated |-> FALSE,
                             playerAngles |-> in.playerAngles,
                             refAngles |-> in.refAngles,
                             playerLandmarks |-> in.playerLandmarks,
                             refLandmarks |-> in.refLandmarks,
                             angleHistory |-> angleSmoothHistory,
                             positionHistory |-> positionSmoothHistory,
                             angles |-> angleResult,
                             position |-> positionResult]
    /\ lastCall' = "none"
    /\ comparison' = NoComparison
    /\ calibration' = NoCalibration
    /\ scoreControl' = NoScoreControl
    /\ frozenAt' = null

NextCompare == ComparePoses \/ StartCalibration \/ ResetGame

SpecCompare == Init /\ [][NextCompare]_vars

\* The session from the moment the browser has refused to play the video of
\* a song just started: startSongPlaybackFromBeginning has run after a
\* skipped calibration and its countdown, play() was rejected and
\* showAudioFallback has put its overlay on the page.  The gestures and
\* detector results are counted from here.
InitFallback ==
    /\ score = 0 /\ combo = 0 /\ currentAccuracy = 0
    /\ lastScoreTimeSec = 0
    /\ goodTimeAccumSec = 0 /\ goodStreakSec = 0
    /\ statsMaxCombo = 0 /\ statsAverageAccuracyAccum = 0
    /\ statsTrackedTimeSec = 0
    /\ isPlaying = TRUE /\ isCalibrated = TRUE /\ isCountdownActive = FALSE
    /\ calibrationFrames = 0
    /\ currentPlayerPose = null
    /\ scaleFactorX = ScaleUnit /\ scaleFactorY = ScaleUnit
    /\ offsetX = 0 /\ offsetY = 0
    /\ processingFrames = TRUE
    /\ positionSmoothHistory = NoHistory(ScoringJoints)
    /\ angleSmoothHistory = NoHistory(AngleNames)
    /\ referenceLowAnglesSinceSec = null /\ playerLowAnglesSinceSec = null
    /\ noPoseWarningMessage = {}
    /\ videoTime = 0 /\ videoPaused = TRUE
    /\ pendingStarts = 0 /\ countdowns = <<>> /\ audioOverlays = 1
    /\ lastCall = "none"
    /\ comparison = NoComparison
    /\ calibration = NoCalibration
    /\ scoreControl = NoScoreControl
    /\ compared = NoCompared
    /\ frozenAt = null
    /\ clicks = 0 /\ frames = 0
    /\ poses = <<>> /\ lastSearchIndex = 0 /\ lookup = NoLookup

SpecFallback == InitFallback /\ [][Next]_vars

----------------------------------------------------------------------------
(* Properties of the score/combo state machine.  A step "is an updateScore  *)
(* call" when lastCall' names one of its returns; the call's nowTimeSec is  *)
(* videoTime and the accuracy it consumed is currentAccuracy'.              *)

\* the step runs updateScore with freezeScoring false
ScoredCall == lastCall' \in {"first", "regress", "zero", "good", "bad"}

\* the step runs updateScore, frozen or not
AnyCall == lastCall' = "frozen" \/ ScoredCall

\* the time the call credits: nowTimeSec - lastScoreTimeSec
ElapsedSec == videoTime - lastScoreTimeSec

ScoreStateUnchanged ==
    UNCHANGED <<score, combo, goodTimeAccumSec, goodStreakSec,
                statsMaxCombo, statsAverageAccuracyAccum, statsTrackedTimeSec>>

\* C1: in every reachable state combo is an integer with
\* 0 <= combo <= MAX_COMBO.
C1_ComboWithinBounds == combo \in 0..MAX_COMBO

\* a good sample whose streak is a combo step past the cap
C1_ComboAtCap ==
    /\ lastCall = "good"
    /\ combo = MAX_COMBO
    /\ goodStreakSec >= (MAX_COMBO + 1) * COMBO_SECONDS * TicksPerSec

\* C2 as stated: every non-frozen updateScore call made while playing with
\* an accuracy below the threshold leaves combo, goodTimeAccumSec and
\* goodStreakSec at 0, whatever its timestamp.
C2_SubThresholdAlwaysResets ==
    [][(ScoredCall /\ currentAccuracy' < SCORE_ACCURACY_THRESHOLD)
         => (combo' = 0 /\ goodTimeAccumSec' = 0 /\ goodStreakSec' = 0)]_vars

\* C2 amended: a non-frozen updateScore call made while playing with an
\* accuracy below the threshold and a timestamp later than lastScoreTimeSec
\* leaves combo, goodTimeAccumSec and goodStreakSec at 0; with a timestamp
\* equal to or before lastScoreTimeSec it leaves the three as they were.
C2_SubThresholdResetsWhenTimeElapsed ==
    [][(ScoredCall /\ currentAccuracy' < SCORE_ACCURACY_THRESHOLD
            /\ lastScoreTimeSec # null)
         => IF ElapsedSec > 0
            THEN combo' = 0 /\ goodTimeAccumSec' = 0 /\ goodStreakSec' = 0
            ELSE UNCHANGED <<combo, goodTimeAccumSec, goodStreakSec>>]_vars

\* a sub-threshold sample has been scored in a session that had a combo
C2_ComboLost ==
    /\ lastCall = "bad"
    /\ currentAccuracy < SCORE_ACCURACY_THRESHOLD
    /\ combo = 0 /\ goodStreakSec = 0 /\ goodTimeAccumSec = 0
    /\ statsMaxCombo > 0

\* C3: an updateScore call, frozen or not, whose sample is not scored below
\* the threshold never decreases combo or goodStreakSec (so they never
\* decrease over a session in which every scored sample reaches the
\* threshold, freezes and backward seeks included).
C3_ComboMonotoneWhileGood ==
    [][(AnyCall /\ lastCall' # "bad")
         => (combo' >= combo /\ goodStreakSec' >= goodStreakSec)]_vars

\* a frozen sample or a backward seek in a session that holds a combo
C3_ComboKeptThroughGap ==
    /\ lastCall \in {"frozen", "regress"}
    /\ combo > 0
    /\ goodStreakSec >= COMBO_SECONDS * TicksPerSec

\* the sides of the sample the step evaluated that were short of angles:
\* updateNoPoseState leaves a side's since-timestamp non-null exactly then
ReferenceLow == referenceLowAnglesSinceSec' # null
PlayerLow == playerLowAnglesSinceSec' # null

\* the side has been short of angles for its configured delay
ReferenceLowForDelay ==
    /\ ReferenceLow
    /\ videoTime - referenceLowAnglesSinceSec'
           >= REFERENCE_NO_POSE_WARNING_DELAY_SEC * TicksPerSec
PlayerLowForDelay ==
    /\ PlayerLow
    /\ videoTime - playerLowAnglesSinceSec'
           >= PLAYER_NO_POSE_WARNING_DELAY_SEC * TicksPerSec

\* C4 as stated: a sample is frozen only when the insufficiency of a side
\* has lasted for at least the configured delay.
C4_FrozenOnlyAfterDelay ==
    [][lastCall' = "frozen" => (ReferenceLowForDelay \/ PlayerLowForDelay)]_vars

\* C4 amended: a sample evaluated while playing is frozen exactly when the
\* reference side or the performer side is short of angles at that sample,
\* from the first such sample on; the configured delay is how long the
\* insufficiency lasts before the warning is shown.
C4_FrozenWhenEitherSideLow ==
    [][AnyCall =>
         /\ (lastCall' = "frozen") <=> (ReferenceLow \/ PlayerLow)
         /\ (noPoseWarningMessage' # {})
                <=> (ReferenceLowForDelay \/ PlayerLowForDelay)]_vars

\* the first sample short of angles has been frozen, no warning shown yet
C4_FrozenAtOnce ==
    /\ lastCall = "frozen"
    /\ noPoseWarningMessage = {}
    /\ \/ referenceLowAnglesSinceSec = videoTime
       \/ playerLowAnglesSinceSec = videoTime

\* C5: a frozen evaluation sets lastScoreTimeSec to now and leaves score,
\* combo, goodTimeAccumSec, goodStreakSec, statsMaxCombo,
\* statsAverageAccuracyAccum and statsTrackedTimeSec unchanged.
C5_FrozenOnlyAdvancesTime ==
    [][lastCall' = "frozen"
         => (lastScoreTimeSec' = videoTime /\ ScoreStateUnchanged)]_vars

\* a frozen sample in a session with a streak and points, after time that
\* was not tracked
C5_FrozenWithStreak ==
    /\ lastCall = "frozen"
    /\ goodStreakSec > 0 /\ score > 0
    /\ lastScoreTimeSec = videoTime
    /\ statsTrackedTimeSec < videoTime

\* C6: the first sample after a frozen one at which both sides are
\* sufficient again is not frozen, and the time it credits to the
\* tracked-time, good-time and good-streak accumulators and to the score is
\* the time since the last frozen sample (nothing when the media time has
\* not advanced since): none of the time spent frozen is credited.
C6_ResumeCreditsSinceLastFrozen ==
    [][(frozenAt # null /\ AnyCall /\ ~ReferenceLow /\ ~PlayerLow)
         => IF videoTime > frozenAt
            THEN /\ lastCall' \in {"good", "bad"}
                 /\ statsTrackedTimeSec'
                        = statsTrackedTimeSec + (videoTime - frozenAt)
                 /\ lastCall' = "good" =>
                      /\ goodStreakSec' = goodStreakSec + (videoTime - frozenAt)
                      /\ (score' - score) * TicksPerSec
                             + SCORE_POINTS_PER_SECOND * goodTimeAccumSec'
                           = SCORE_POINTS_PER_SECOND
                                 * (goodTimeAccumSec + (videoTime - frozenAt))
            ELSE /\ lastCall' \in {"regress", "zero"}
                 /\ ScoreStateUnchanged]_vars

\* a run of one gesture and two detector results while playing, the first at
\* MidTime and the second, a good one, at the end of the video: the tracked
\* time is the time between the two, so the first was frozen and the time
\* before it was not credited
C6_ResumedAfterFreeze ==
    /\ lastCall = "good"
    /\ clicks = 1 /\ frames = 2
    /\ videoTime = Duration
    /\ statsTrackedTimeSec = Duration - MidTime
    /\ goodStreakSec = Duration - MidTime

\* C7: a non-frozen updateScore call whose nowTimeSec is before
\* lastScoreTimeSec sets lastScoreTimeSec to nowTimeSec and leaves score,
\* combo, goodTimeAccumSec, goodStreakSec and the stats accumulators
\* unchanged.
C7_RegressOnlyResyncs ==
    [][(ScoredCall /\ lastScoreTimeSec # null /\ videoTime < lastScoreTimeSec)
         => (lastScoreTimeSec' = videoTime /\ ScoreStateUnchanged)]_vars

\* a sample after a backward seek, in a session with points and a streak
C7_ResyncedAfterSeek ==
    /\ lastCall = "regress"
    /\ lastScoreTimeSec = videoTime
    /\ score > 0 /\ goodStreakSec > videoTime

\* C8 as stated: the accuracy updateScore consumes is the overall_score that
\* comparePoses reports, the weighted fusion of the position and angle
\* accuracies.
C8_ConsumesOverallScore ==
    [][ScoredCall => currentAccuracy' * overallDen = comparison'.overall_num]_vars

\* C8 amended: the accuracy updateScore consumes is the angle accuracy that
\* comparePoses reports as scores.angles; the position accuracy and the
\* weights enter overall_score only.
C8_ConsumesAngleAccuracy ==
    [][ScoredCall => currentAccuracy' = comparison'.angles]_vars

\* a sample scored as good whose overall_score is below the threshold
C8_GoodBelowOverallThreshold ==
    /\ lastCall = "good"
    /\ currentAccuracy = comparison.angles
    /\ comparison.overall_num < SCORE_ACCURACY_THRESHOLD * overallDen

\* C9: in every reachable state
\* combo = min(MAX_COMBO, floor(goodStreakSec / COMBO_SECONDS)).
C9_ComboFromStreak ==
    combo = Min(MAX_COMBO, goodStreakSec \div (COMBO_SECONDS * TicksPerSec))

\* a combo below the cap, with a streak that is no multiple of COMBO_SECONDS
C9_ComboBelowCap ==
    /\ lastCall = "good"
    /\ combo \in 1..(MAX_COMBO - 1)
    /\ goodStreakSec % (COMBO_SECONDS * TicksPerSec) >= TicksPerSec

\* C10: goodTimeAccumSec is at least 0 and below one second in every
\* reachable state, and a sample scored at or above the threshold adds
\* SCORE_POINTS_PER_SECOND * floor(goodTimeAccumSec + dt) to the score; no
\* other updateScore call changes the score.
C10_OneBundlePerWholeSecond ==
    /\ [](goodTimeAccumSec \in 0..(TicksPerSec - 1))
    /\ [][AnyCall =>
            IF /\ ScoredCall /\ lastScoreTimeSec # null /\ ElapsedSec > 0
               /\ currentAccuracy' >= SCORE_ACCURACY_THRESHOLD
            THEN score' = score + SCORE_POINTS_PER_SECOND
                              * ((goodTimeAccumSec + ElapsedSec) \div TicksPerSec)
            ELSE score' = score]_vars

\* a good sample that crossed several whole seconds and kept a fraction
C10_SeveralSecondsCrossed ==
    /\ lastCall = "good"
    /\ score >= 2 * SCORE_POINTS_PER_SECOND
    /\ goodTimeAccumSec > 0

\* C12: every scored sample with dt > 0 adds accuracy * dt to
\* statsAverageAccuracyAccum and dt to statsTrackedTimeSec, whether or not
\* the accuracy reaches the threshold; frozen, regressed-time and zero-dt
\* samples add nothing to either.
C12_StatsTrackEveryScoredSample ==
    [][AnyCall =>
         IF ScoredCall /\ lastScoreTimeSec # null /\ ElapsedSec > 0
         THEN /\ statsAverageAccuracyAccum'
                    = statsAverageAccuracyAccum + currentAccuracy' * ElapsedSec
              /\ statsTrackedTimeSec' = statsTrackedTimeSec + ElapsedSec
         ELSE UNCHANGED <<statsAverageAccuracyAccum, statsTrackedTimeSec>>]_vars

\* a sample below the threshold has been tracked
C12_BadSampleTracked ==
    /\ lastCall = "bad"
    /\ currentAccuracy \in 1..(SCORE_ACCURACY_THRESHOLD - 1)
    /\ statsTrackedTimeSec > 0
    /\ statsAverageAccuracyAccum >= currentAccuracy * statsTrackedTimeSec

\* the step is a detector result that handleCalibration scores: the session
\* is not calibrated and comparePoses is reached
CalibrationSample == ~isCalibrated /\ lastCall' # "none"

Qualifies == comparison'.overall_num >= MIN_CALIBRATION_QUALITY * overallDen

IsIdentity ==
    /\ scaleFactorX = ScaleUnit /\ scaleFactorY = ScaleUnit
    /\ offsetX = 0 /\ offsetY = 0

\* C19: the normalization is the identity from startCalibration until a
\* calibration completes: while the session is not calibrated, the scale
\* factors are 1 and the offsets 0, so normalizePose leaves every landmark
\* of a calibration sample where the detector put it.
C19_IdentityWhileCalibrating ==
    ~isCalibrated =>
        /\ IsIdentity
        /\ \A id \in TorsoIds :
              normalizePose(S, PlayerTorso[id]) = PlayerTorso[id]

\* C20: when calculateNormalization is given a torso landmark that is
\* missing or below the visibility threshold, in the performer's pose or in
\* the reference pose, it raises nothing and leaves the identity.
C20_UntrustedTorsoLeavesIdentity ==
    (calibration.called
       /\ ~(calibration.playerTrusted /\ calibration.referenceTrusted))
    => (~calibration.raised /\ IsIdentity)

\* what updateNoPoseState makes of one side's timestamp: null when the side
\* is sufficient at this sample, the time of this sample when the side has
\* just become insufficient, and the timestamp it had otherwise
SinceAfter(insufficient, sinceSec) ==
    IF ~insufficient THEN null
    ELSE IF sinceSec = null THEN videoTime
    ELSE sinceSec

\* C21: after every updateNoPoseState call each side's since-timestamp is
\* null exactly when that side is sufficient at the sample; a side that
\* stays insufficient keeps the time of its first insufficient sample; and
\* each timestamp depends on its own side only.
C21_TimersFollowTheirOwnSide ==
    [][scoreControl'.called =>
         /\ (referenceLowAnglesSinceSec' = null)
                <=> ~scoreControl'.referenceInsufficient
         /\ (playerLowAnglesSinceSec' = null)
                <=> ~scoreControl'.playerInsufficient
         /\ referenceLowAnglesSinceSec'
                = SinceAfter(scoreControl'.referenceInsufficient,
                             referenceLowAnglesSinceSec)
         /\ playerLowAnglesSinceSec'
                = SinceAfter(scoreControl'.playerInsufficient,
                             playerLowAnglesSinceSec)]_vars

\* the reference side has stayed insufficient since an earlier sample while
\* the performer side is sufficient
C21_OneSideStillLow ==
    /\ scoreControl.called
    /\ scoreControl.referenceInsufficient /\ ~scoreControl.playerInsufficient
    /\ referenceLowAnglesSinceSec # null
    /\ referenceLowAnglesSinceSec < videoTime
    /\ playerLowAnglesSinceSec = null

ReferenceWarning == "TOO FEW POSES IN REFERENCE VIDEO)"
PlayerWarning == "TOO FEW POSES IN YOUR VIDEO"

\* after an evaluation while playing, each side's warning is present
\* exactly when the side is insufficient at the sample and has been so for
\* its delay, and no warning is present when both sides are sufficient
WarningsFollowDelay ==
    scoreControl'.called =>
        /\ (ReferenceWarning \in noPoseWarningMessage')
              <=> (scoreControl'.referenceInsufficient /\ ReferenceLowForDelay)
        /\ (PlayerWarning \in noPoseWarningMessage')
              <=> (scoreControl'.playerInsufficient /\ PlayerLowForDelay)
        /\ (~scoreControl'.referenceInsufficient
               /\ ~scoreControl'.playerInsufficient)
              => noPoseWarningMessage' = {}

\* the user pauses the playback
Pause == TogglePlayPause /\ ~videoPaused /\ videoPaused'

\* C22: after each evaluation while playing a side's warning is present
\* exactly when the side is insufficient at this sample and has been for at
\* least its delay, the message is empty when both sides are sufficient,
\* and the message is cleared on pause, song end and reset.
C22_WarningsFollowDelayAndClear ==
    [][/\ WarningsFollowDelay
       /\ (Pause \/ VideoEnded \/ ResetGame) => noPoseWarningMessage' = {}]_vars

\* the step is a detector result
DetectorResult == frames' # frames

\* the variable changes only to zero
OnlyReset(v, w) == w # v => w = 0

\* C23: while isPlaying is false no detector result changes score, combo,
\* goodTimeAccumSec, goodStreakSec or the stats accumulators, and a step
\* that is not a detector result changes them only by setting them to zero.
C23_ScoreMutatedOnlyWhilePlaying ==
    [][/\ (DetectorResult /\ ~isPlaying) => ScoreStateUnchanged
       /\ ~DetectorResult =>
            /\ OnlyReset(score, score')
            /\ OnlyReset(combo, combo')
            /\ OnlyReset(goodTimeAccumSec, goodTimeAccumSec')
            /\ OnlyReset(goodStreakSec, goodStreakSec')
            /\ OnlyReset(statsMaxCombo, statsMaxCombo')
            /\ OnlyReset(statsAverageAccuracyAccum, statsAverageAccuracyAccum')
            /\ OnlyReset(statsTrackedTimeSec, statsTrackedTimeSec')]_vars

\* a calibration sample has been compared while the session was not
\* playing and the score earned before is still there
C23_ComparedWhileNotPlaying ==
    /\ ~isPlaying
    /\ lastCall = "unscored"
    /\ score > 0
    /\ statsTrackedTimeSec > 0

\* the histories hold no entry
HistoriesEmpty ==
    /\ angleSmoothHistory = NoHistory(AngleNames)
    /\ positionSmoothHistory = NoHistory(ScoringJoints)

\* the names and joints a comparison evaluated a sample for
comparedAngles ==
    {angleName \in DOMAIN compared.refAngles :
        /\ compared.refAngles[angleName] # null
        /\ compared.playerAngles[angleName] # null}

comparedJoints ==
    {jointIdx \in ScoringJoints :
        /\ compared.playerLandmarks[jointIdx].defined
        /\ compared.refLandmarks[jointIdx].defined
        /\ compared.playerLandmarks[jointIdx].visibility >= MinVisibility
        /\ compared.refLandmarks[jointIdx].visibility >= MinVisibility}

\* a sample for a key the history had no entry for is compared as it is
FirstSampleUnsmoothed ==
    compared.called =>
      /\ \A angleName \in comparedAngles :
           compared.angleHistory[angleName] = null =>
             /\ angleSmoothHistory[angleName] = compared.playerAngles[angleName]
             /\ compared.angles.similarities[angleName] =
                  Max(0, SimilarityDen
                         - Abs(compared.playerAngles[angleName]
                               - compared.refAngles[angleName]))
      /\ \A jointIdx \in comparedJoints :
           compared.positionHistory[jointIdx] = null =>
             /\ positionSmoothHistory[jointIdx] =
                  jointDistance(compared.playerLandmarks[jointIdx],
                                compared.refLandmarks[jointIdx])
             /\ compared.position.matches[jointIdx] =
                  (IF positionSmoothHistory[jointIdx] < POSITION_THRESHOLD
                   THEN "true" ELSE "false")

\* C24: immediately after startCalibration and immediately after resetGame
\* both smoothing histories are empty, and a sample evaluated for a key
\* whose history has no entry - the first one after the clearing - is
\* compared unsmoothed and becomes the entry of the key.
C24_HistoriesClearedThenUnsmoothed ==
    [][/\ (StartCalibration \/ ResetGame) => HistoriesEmpty'
       /\ FirstSampleUnsmoothed']_vars

\* a pose has been compared, the histories were cleared by a gesture, and
\* the next pose has been compared against empty histories: its elbow angle
\* of 150 degrees was compared as it is and is a match of none of the
\* reference angles of 120 degrees, which smoothing with 90 would have made
C24_ComparedAfterClearing ==
    /\ compared.called
    /\ clicks >= 1
    /\ frames = MaxCompares
    /\ compared.angleHistory = NoHistory(AngleNames)
    /\ "left_elbow" \in comparedAngles
    /\ compared.playerAngles["left_elbow"] = Degrees(150)
    /\ compared.refAngles["left_elbow"] = Degrees(120)
    /\ angleSmoothHistory["left_elbow"] = Degrees(150)
    /\ ~compared.angles.matches["left_elbow"]

\* a countdown reaches startSongPlaybackFromBeginning: its coroutine ends
\* while isCountdownActive is still set
PlaybackStarts ==
    /\ CountdownResume
    /\ isCountdownActive
    /\ Len(countdowns') < Len(countdowns)

ScoreStateZero ==
    /\ score = 0
    /\ combo = 0
    /\ goodTimeAccumSec = 0
    /\ goodStreakSec = 0
    /\ statsMaxCombo = 0
    /\ statsAverageAccuracyAccum = 0
    /\ statsTrackedTimeSec = 0

\* C25: when a countdown reaches startSongPlaybackFromBeginning and
\* isPlaying becomes true, score, combo, goodTimeAccumSec, goodStreakSec and
\* the stats accumulators are 0 and lastScoreTimeSec is the current game
\* time.
C25_PlayingStartsFromResetState ==
    [][(PlaybackStarts /\ ~isPlaying /\ isPlaying') =>
          /\ ScoreStateZero'
          /\ lastScoreTimeSec' = videoTime']_vars

\* C26: in every reachable state isPlaying implies isCalibrated, whatever
\* the interleaving of calibration, countdown steps, togglePlayPause, the
\* click on the audio-fallback overlay, retry, reset and song end.
C26_PlayingOnlyWhenCalibrated == isPlaying => isCalibrated

\* the reference angles that are present: the pairs compareAngles counts
presentAngles ==
    {angleName \in DOMAIN compared.refAngles :
        compared.refAngles[angleName] # null}

\* max(0, 1 - |smoothedPerformer - reference| / ANGLE_SIMILARITY_RANGE) >=
\* ANGLE_MATCH_SIMILARITY, the smoothed performer angle being the one the
\* comparison has left in the history
pairMatches(angleName) ==
    /\ compared.playerAngles[angleName] # null
    /\ Max(0, SimilarityDen - Abs(angleSmoothHistory[angleName]
                                  - compared.refAngles[angleName])) * Tenth
         >= ANGLE_MATCH_SIMILARITY * SimilarityDen

matchedAngles == {angleName \in presentAngles : pairMatches(angleName)}

\* the performer holds 90 degrees at the one angle the reference has
steadyAt90(angleName) ==
    /\ presentAngles = {angleName}
    /\ compared.playerAngles[angleName] = Degrees(90)
    /\ compared.angleHistory[angleName] \in {null, Degrees(90)}

\* C27: compareAngles returns accuracy = min(1, matchedCount / max(1,
\* totalCount - ANGLE_ALLOWED_MISSES)), a value in [0,1]; a pair matches
\* exactly when its similarity is at least ANGLE_MATCH_SIMILARITY; with one
\* reference angle a steady performer angle of 90 degrees against 90 is a
\* match with accuracy 1 and against 150 no match with accuracy 0.
C27_AngleAccuracyFormula ==
    compared.called =>
      LET accuracy == compared.angles.accuracy
          effectiveTotal ==
              Max(1, Cardinality(presentAngles) - ANGLE_ALLOWED_MISSES)
      IN  /\ accuracy.den > 0
          /\ 0 <= accuracy.num /\ accuracy.num <= accuracy.den
          /\ accuracy.num * effectiveTotal =
               Min(effectiveTotal, Cardinality(matchedAngles)) * accuracy.den
          /\ \A angleName \in presentAngles :
               compared.angles.matches[angleName] = pairMatches(angleName)
          /\ \A angleName \in AngleNames :
               steadyAt90(angleName) =>
                 /\ compared.refAngles[angleName] = Degrees(90) =>
                      /\ compared.angles.matches[angleName]
                      /\ accuracy.num = accuracy.den
                 /\ compared.refAngles[angleName] = Degrees(150) =>
                      /\ ~compared.angles.matches[angleName]
                      /\ accuracy.num = 0

\* four reference angles are present and the performer matches one of them:
\* the accuracy is 1/2
C27_OneOfFourMatched ==
    /\ compared.called
    /\ Cardinality(presentAngles) = 4
    /\ Cardinality(matchedAngles) = 1
    /\ compared.angles.accuracy = [num |-> 1, den |-> 2]

\* C28: compareAngles counts every reference angle that is present; a pair
\* whose performer angle is absent is recorded as no match with similarity 0
\* and its history entry is left as it was; reference angles that are null
\* or undefined are neither counted nor in the match map.
C28_AbsentPerformerCountsAsMiss ==
    compared.called =>
      /\ compared.angles.totalAngles = Cardinality(presentAngles)
      /\ DOMAIN compared.angles.matches = presentAngles
      /\ \A angleName \in presentAngles :
           compared.playerAngles[angleName] = null =>
             /\ compared.angles.matches[angleName] = FALSE
             /\ compared.angles.similarities[angleName] = 0
             /\ angleSmoothHistory[angleName] = compared.angleHistory[angleName]

\* the reference has two angles, a null one and lacks one; the performer's
\* left elbow is unseen and keeps the history entry an earlier sample left,
\* the right elbow is seen
C28_UnseenElbowKeepsHistory ==
    /\ compared.called
    /\ presentAngles = {"left_elbow", "right_elbow"}
    /\ DOMAIN compared.refAngles = AngleNames \ {"right_knee"}
    /\ compared.playerAngles["left_elbow"] = null
    /\ compared.playerAngles["right_elbow"] # null
    /\ compared.angleHistory["left_elbow"] # null
    /\ angleSmoothHistory["left_elbow"] = compared.angleHistory["left_elbow"]
    /\ compared.angles.totalAngles = 2

\* C29: when no reference angle is present (all are null, or the reference
\* has none) compareAngles returns accuracy 0 and an empty match set and
\* divides by nothing that is zero, whatever the performer angles are.
C29_NoReferenceAnglesGivesZero ==
    (compared.called /\ presentAngles = {}) =>
      /\ compared.angles.accuracy.num = 0
      /\ compared.angles.accuracy.den >= 1
      /\ DOMAIN compared.angles.matches = {}
      /\ compared.angles.totalAngles = 0
      /\ compared.angles.matchedCount = 0

\* every reference angle is null while the performer shows all four angles
C29_AllReferenceAnglesNull ==
    /\ compared.called
    /\ DOMAIN compared.refAngles = AngleNames
    /\ presentAngles = {}
    /\ \A angleName \in AngleNames : compared.playerAngles[angleName] # null
    /\ compared.angles.accuracy.num = 0

\* every landmark of the performer has a visibility below 0.5
AllPlayerJointsHardlyVisible ==
    \A jointIdx \in ScoringJoints :
        /\ compared.playerLandmarks[jointIdx].defined
        /\ compared.playerLandmarks[jointIdx].visibility < MinVisibility

PositionsUntouched ==
    /\ compared.position.accuracy.num = 0
    /\ ~compared.position.raised
    /\ positionSmoothHistory = compared.positionHistory

\* C30 as stated: when every performer landmark has visibility < 0.5,
\* comparePositions returns accuracy 0 and an empty matches map, never
\* throws, and leaves positionSmoothHistory unchanged.
C30_HardlyVisibleGivesEmptyMatches ==
    (compared.called /\ AllPlayerJointsHardlyVisible) =>
      /\ PositionsUntouched
      /\ DOMAIN compared.position.matches = {}

\* C30 amended: when every performer landmark has visibility < 0.5,
\* comparePositions returns accuracy 0 and a matches map that holds null for
\* every scoring joint, never throws, and leaves positionSmoothHistory
\* unchanged.
C30_HardlyVisibleGivesNullMatches ==
    (compared.called /\ AllPlayerJointsHardlyVisible) =>
      /\ PositionsUntouched
      /\ DOMAIN compared.position.matches = ScoringJoints
      /\ \A jointIdx \in ScoringJoints :
           compared.position.matches[jointIdx] = "null"

\* the performer's joints are all hardly visible in a sample that follows
\* one which left a distance in the history; the reference lacks a joint
C30_HardlyVisibleAfterSeen ==
    /\ compared.called
    /\ AllPlayerJointsHardlyVisible
    /\ ~compared.refLandmarks[15].defined
    /\ compared.positionHistory[11] # null
    /\ positionSmoothHistory = compared.positionHistory
    /\ compared.position.matches[11] = "null"
    /\ compared.position.accuracy.num = 0

\* the sum of the distances the comparison has left in the history for the
\* joints of a set
RECURSIVE distanceSum(_)
distanceSum(joints) ==
    IF joints = {} THEN 0
    ELSE LET jointIdx == CHOOSE j \in joints : TRUE
         IN  positionSmoothHistory[jointIdx] + distanceSum(joints \ {jointIdx})

averageDistance == distanceSum(comparedJoints) \div Cardinality(comparedJoints)

matchedJoints ==
    {jointIdx \in comparedJoints :
        positionSmoothHistory[jointIdx] < POSITION_THRESHOLD}

\* C31: whenever at least one landmark pair is comparable, comparePositions
\* returns score = max(0, 1 - averageDistance), averageDistance being the
\* mean of the smoothed distances of the compared pairs, also when it is 0,
\* and accuracy = matchedCount / totalCount.
C31_PositionScoreFromAverage ==
    (compared.called /\ comparedJoints # {}) =>
      /\ compared.position.score = Max(0, DistanceUnit - averageDistance)
      /\ compared.position.accuracy =
           [num |-> Cardinality(matchedJoints),
            den |-> Cardinality(comparedJoints)]

\* the transform the two landmark lists of the last calibration determine
torsoScale ==
    LET playerTorso == getTorsoSize(calibration.playerLandmarks)
        refTorso == getTorsoSize(calibration.referenceLandmarks)
    IN  ((refTorso.width * ScaleUnit) \div playerTorso.width
         + (refTorso.height * ScaleUnit) \div playerTorso.height) \div 2

performerCenter == getTorsoCenter(calibration.playerLandmarks)
refCenter == getTorsoCenter(calibration.referenceLandmarks)

\* C32: after calculateNormalization on a capture with the four torso
\* landmarks present on both sides, scaleFactorX = scaleFactorY is the scale
\* the two poses determine, offset = refCenter - scale * performerCenter,
\* and normalizePose maps the performer's torso centroid onto the
\* reference's; the transform held before has no part in it.
C32_TransformAlignsCentroids ==
    (calibration.called /\ ~calibration.raised) =>
      /\ scaleFactorX = scaleFactorY
      /\ scaleFactorX = torsoScale
      /\ offsetX = refCenter.x - (performerCenter.x * scaleFactorX) \div ScaleUnit
      /\ offsetY = refCenter.y - (performerCenter.y * scaleFactorY) \div ScaleUnit
      /\ LET centroid == normalizePose(S, Landmark(performerCenter.x,
                                                   performerCenter.y, 100))
         IN  centroid.x = refCenter.x /\ centroid.y = refCenter.y

\* a second calibration has replaced a transform that was not the identity
\* by another one, for a performer whose torso is elsewhere and of another
\* size than the reference's
C32_RecalibratedFromOtherTransform ==
    /\ calibration.called
    /\ ~calibration.raised
    /\ calibration.before # <<ScaleUnit, ScaleUnit, 0, 0>>
    /\ calibration.before # <<scaleFactorX, scaleFactorY, offsetX, offsetY>>
    /\ scaleFactorX # ScaleUnit
    /\ offsetX # 0
    /\ performerCenter # refCenter

\* one of the three landmarks of an angle is missing or hardly visible
angleHidden(angleName) ==
    \E i \in 1..3 :
        LET lm == compared.landmarks[ANGLE_JOINTS(angleName)[i]]
        IN  ~lm.defined \/ lm.visibility < MinVisibility

\* C33: for every pose calculateAngles yields for each configured joint null,
\* exactly when one of its three landmarks is missing or has visibility
\* below 0.5, or else a value in [0,180]; it never yields NaN, also when two
\* of the three landmarks coincide.
C33_AnglesNullOrInRange ==
    compared.calculated =>
      \A angleName \in AngleNames :
        LET angle == compared.angles[angleName] IN
        /\ (angle = null) <=> angleHidden(angleName)
        /\ angle # NaN
        /\ angle # null => (0 <= angle /\ angle <= Degrees(180))

\* the elbow and the wrist of the left arm are at the same place, all three
\* landmarks visible: the angle is 90 degrees, while the knee whose ankle is
\* missing has none
C33_CoincidentLandmarks ==
    /\ compared.calculated
    /\ ~angleHidden("left_elbow")
    /\ compared.landmarks[13].x = compared.landmarks[15].x
    /\ compared.landmarks[13].y = compared.landmarks[15].y
    /\ compared.landmarks[11].x # compared.landmarks[13].x
    /\ compared.angles["left_elbow"] = Degrees(90)
    /\ compared.angles["right_elbow"] = Degrees(180)
    /\ compared.angles["right_knee"] = null

----------------------------------------------------------------------------
(* An uninterrupted run of good samples: the session has just started       *)
(* (startSongPlaybackFromBeginning, playback allowed), the media clock      *)
(* advances by any amounts, and every detector result carries a full pose   *)
(* on both sides with an angle accuracy at or above the threshold.          *)

InitRun ==
    /\ score = 0 /\ combo = 0 /\ currentAccuracy = 0
    /\ lastScoreTimeSec = 0
    /\ goodTimeAccumSec = 0 /\ goodStreakSec = 0
    /\ statsMaxCombo = 0 /\ statsAverageAccuracyAccum = 0
    /\ statsTrackedTimeSec = 0
    /\ isPlaying = TRUE /\ isCalibrated = TRUE /\ isCountdownActive = FALSE
    /\ calibrationFrames = 0
    /\ currentPlayerPose = null
    /\ scaleFactorX = ScaleUnit /\ scaleFactorY = ScaleUnit
    /\ offsetX = 0 /\ offsetY = 0
    /\ processingFrames = TRUE
    /\ positionSmoothHistory = NoHistory(ScoringJoints)
    /\ angleSmoothHistory = NoHistory(AngleNames)
    /\ referenceLowAnglesSinceSec = null /\ playerLowAnglesSinceSec = null
    /\ noPoseWarningMessage = {}
    /\ videoTime = 0 /\ videoPaused = FALSE
    /\ pendingStarts = 0 /\ countdowns = <<>> /\ audioOverlays = 0
    /\ lastCall = "none"
    /\ comparison = NoComparison
    /\ calibration = NoCalibration
    /\ scoreControl = NoScoreControl
    /\ compared = NoCompared
    /\ frozenAt = null
    /\ clicks = 0 /\ frames = 0
    /\ poses = <<>> /\ lastSearchIndex = 0 /\ lookup = NoLookup

\* the media clock advances to any later instant of the video
RunTick ==
    /\ \E t \in 0..Duration :
        /\ t > videoTime
        /\ Commit([S EXCEPT !.videoTime = t])
    /\ lastCall' = "none"
    /\ comparison' = NoComparison
    /\ calibration' = NoCalibration
    /\ scoreControl' = NoScoreControl
    /\ compared' = NoCompared
    /\ UNCHANGED <<frozenAt, clicks, frames>>

RunGoodSample ==
    /\ frames < MaxRunSamples
    /\ frames' = frames + 1
    /\ UNCHANGED <<clicks, frozenAt>>
    /\ \E pa \in PositionAccuracies,
          aa \in {a \in AngleAccuracies : reachesThreshold(a)} :
        /\ Commit(onPoseResults(S, MaxDetected, MaxDetected, pa, aa,
                               PlayerTorso, ReferenceTorso))
        /\ lastCall' = comparePosesBranch(S, MaxDetected, MaxDetected, pa, aa)
        /\ comparison' = comparisonOf(pa, aa)
        /\ calibration' = NoCalibration
        /\ scoreControl' = IF isPlaying
                           THEN scoreControlOf(MaxDetected, MaxDetected)
                           ELSE NoScoreControl
        /\ compared' = NoCompared

NextRun == RunTick \/ RunGoodSample

SpecRun == InitRun /\ [][NextRun]_vars

\* The playing session seen result by result: the song has just been
\* started from its beginning (InitRun), the media clock runs, and every
\* detector result is one call of onPoseResults with whatever the detector
\* and the reference lookup delivered.  Each result is recorded with what it
\* carried, whether it reached comparePoses, and the media times of the
\* first and of the latest result since the last evaluation that found a
\* performer pose but no usable reference pose.
noReferenceSince ==
    IF "noReferenceSince" \in DOMAIN compared
    THEN compared.noReferenceSince ELSE null

noReferenceAt ==
    IF "noReferenceAt" \in DOMAIN compared THEN compared.noReferenceAt ELSE null

PlayTick ==
    /\ ~videoPaused
    /\ \E t \in 0..MaxPlayTime :
        /\ t > videoTime
        /\ Commit([S EXCEPT !.videoTime = t])
    /\ lastCall' = "none"
    /\ comparison' = NoComparison
    /\ calibration' = NoCalibration
    /\ scoreControl' = NoScoreControl
    /\ UNCHANGED <<compared, frozenAt, clicks, frames>>

PlayResult ==
    /\ processingFrames
    /\ frames < MaxPlayResults
    /\ frames' = frames + 1
    /\ UNCHANGED clicks
    /\ \E playerLandmarks \in {null} \cup (0..MaxDetected),
          referencePose \in {null} \cup (0..MaxDetected) :
      LET does == compares(S, playerLandmarks, referencePose)
          player == IF playerLandmarks # null THEN playerLandmarks
                    ELSE currentPlayerPose
      IN
      \E pa \in (IF does THEN PositionAccuracies ELSE {0}),
         aa \in (IF does THEN angleAccuracyInputs(player, referencePose) ELSE {0}) :
        /\ Commit(onPoseResults(S, playerLandmarks, referencePose, pa, aa,
                                PlayerTorso, ReferenceTorso))
        /\ lastCall' = IF does
                       THEN comparePosesBranch(S, player, referencePose, pa, aa)
                       ELSE "none"
        /\ comparison' = IF does THEN comparisonOf(pa, aa) ELSE NoComparison
        /\ frozenAt' =
             IF does /\ isPlaying
             THEN (IF comparePosesBranch(S, player, referencePose, pa, aa) = "frozen"
                   THEN videoTime ELSE null)
             ELSE frozenAt
        /\ scoreControl' = IF does /\ isPlaying
                           THEN scoreControlOf(referencePose, player)
                           ELSE NoScoreControl
        /\ calibration' = NoCalibration
        /\ compared' =
             [called |-> FALSE,
              calculated |-> FALSE,
              playerLandmarks |-> playerLandmarks,
              referencePose |-> referencePose,
              evaluated |-> does,
              noReferenceSince |->
                  IF does THEN null
                  ELSE IF isCalibrated /\ isPlaying /\ player # null
                          /\ referencePose = null /\ noReferenceSince = null
                  THEN videoTime
                  ELSE noReferenceSince,
              noReferenceAt |->
                  IF does THEN null
                  ELSE IF isCalibrated /\ isPlaying /\ player # null
                          /\ referencePose = null
                  THEN videoTime
                  ELSE noReferenceAt]

\* the play/pause button during the session
PlayToggle ==
    /\ clicks < MaxPlayToggles
    /\ clicks' = clicks + 1
    /\ Commit(togglePlayPause(S))
    /\ lastCall' = "none"
    /\ comparison' = NoComparison
    /\ calibration' = NoCalibration
    /\ scoreControl' = NoScoreControl
    /\ compared' = NoCompared
    /\ frozenAt' = null
    /\ UNCHANGED frames

NextPlay == PlayTick \/ PlayResult \/ PlayToggle

SpecPlay == InitRun /\ [][NextPlay]_vars

\* a detector result of the playing session that reached comparePoses
Evaluation == frames' # frames /\ compared'.evaluated

\* C34: while playing, an interval without evaluation because no usable
\* reference pose was resolved creates no dt burst: the first evaluation
\* after it credits to statsTrackedTimeSec, goodStreakSec, goodTimeAccumSec
\* and score at most the time since the previous evaluation less the time
\* between the first and the latest result that found no reference pose
C34_NoReferenceGapNotCredited ==
    [][(Evaluation /\ noReferenceAt # null /\ lastScoreTimeSec # null) =>
        LET dt == Max(0, videoTime - lastScoreTimeSec)
                    - (noReferenceAt - noReferenceSince)
        IN
        /\ statsTrackedTimeSec' - statsTrackedTimeSec <= dt
        /\ goodStreakSec' - goodStreakSec <= dt
        /\ goodTimeAccumSec' <= goodTimeAccumSec + dt
        /\ score' - score <= SCORE_POINTS_PER_SECOND
                               * ((goodTimeAccumSec + dt) \div TicksPerSec)]_vars

\* a detector result of the playing session that carried no performer pose
ResultWithoutPerformer ==
    frames' # frames /\ isPlaying /\ compared'.playerLandmarks = null

\* C35: a detector result without performer pose, received while playing,
\* does not increase score, combo, goodStreakSec or the stats accumulators,
\* and the pose received before it is not scored again in its place
C35_NoPerformerPoseNotScored ==
    [][ResultWithoutPerformer =>
        /\ score' <= score
        /\ combo' <= combo
        /\ goodStreakSec' <= goodStreakSec
        /\ statsTrackedTimeSec' = statsTrackedTimeSec
        /\ statsAverageAccuracyAccum' = statsAverageAccuracyAccum
        /\ statsMaxCombo' = statsMaxCombo
        /\ lastCall' \notin {"good", "bad"}]_vars

\* Countdowns in flight together.  startSongWithCountdown is a coroutine that
\* sleeps in waitMs between its steps; resetGame and startCalibration clear
\* isCountdownActive while it sleeps, and retrySong or the timer of
\* skipCalibration may start another countdown before it wakes.  Each
\* countdown in flight carries a mark telling whether isCountdownActive was
\* cleared under it, and each step is recorded with the countdown, if any,
\* that called startSongPlaybackFromBeginning in it.
cancelled ==
    IF "cancelled" \in DOMAIN compared THEN compared.cancelled ELSE <<>>

startedBy ==
    IF "startedBy" \in DOMAIN compared THEN compared.startedBy ELSE "none"

\* the marks after a handler that may have started a countdown
marksAfterStart(s) ==
    IF Len(s.countdowns) > Len(countdowns)
    THEN Append(cancelled, FALSE)
    ELSE cancelled

\* the marks after a handler that cleared isCountdownActive
marksAfterClear == [i \in 1..Len(countdowns) |-> TRUE]

Racing(s, marks, by) ==
    /\ s.pendingStarts <= MaxPendingStarts
    /\ Len(s.countdowns) <= MaxRacingCountdowns
    /\ s.audioOverlays <= MaxOverlays
    /\ Commit(s)
    /\ lastCall' = "none"
    /\ comparison' = NoComparison
    /\ calibration' = NoCalibration
    /\ scoreControl' = NoScoreControl
    /\ compared' = [called |-> FALSE, calculated |-> FALSE,
                    cancelled |-> marks, startedBy |-> by]
    /\ frozenAt' = null
    /\ UNCHANGED <<clicks, frames>>

RacingSkipCalibration == Racing(skipCalibration(S), cancelled, "none")

RacingStartGameTimer ==
    /\ pendingStarts > 0
    /\ LET s == startGameAfterCalibration([S EXCEPT !.pendingStarts = @ - 1])
       IN  Racing(s, marksAfterStart(s), "none")

RacingRetrySong ==
    LET s == retrySong(S) IN Racing(s, marksAfterStart(s), "none")

RacingResetGame == Racing(resetGame(S), marksAfterClear, "none")

RacingStartCalibration == Racing(startCalibration(S), marksAfterClear, "none")

RacingCountdownResume ==
    \E i \in 1..Len(countdowns), autoplayAllowed \in BOOLEAN :
        /\ \A j \in 1..(i - 1) : countdowns[j] > countdowns[i]
        /\ LET s == countdownResume(S, i, autoplayAllowed)
               starts == isCountdownActive /\ countdowns[i] = 3
           IN  Racing(s,
                      IF Len(s.countdowns) < Len(countdowns)
                      THEN RemoveAt(cancelled, i)
                      ELSE cancelled,
                      IF ~starts THEN "none"
                      ELSE IF cancelled[i] THEN "cancelled"
                      ELSE "live")

NextRacing ==
    \/ RacingSkipCalibration
    \/ RacingStartGameTimer
    \/ RacingRetrySong
    \/ RacingResetGame
    \/ RacingStartCalibration
    \/ RacingCountdownResume

SpecRacing == Init /\ [][NextRacing]_vars

PauseClick ==
    PlayToggle /\ isCalibrated /\ ~isCountdownActive /\ isPlaying

ResumeClick ==
    /\ PlayToggle /\ isCalibrated /\ ~isCountdownActive
    /\ ~isPlaying /\ videoTime < Duration

\* C37: pausing and resuming through togglePlayPause leave score, combo,
\* goodTimeAccumSec, goodStreakSec and the stats accumulators unchanged;
\* lastScoreTimeSec is null from the pause on while paused and is the game
\* time at the resume, and an evaluation credits to statsTrackedTimeSec no
\* more than the time since lastScoreTimeSec, so no paused time is credited
C37_PauseResumeCreditsNoPausedTime ==
    [][/\ PauseClick => (ScoreStateUnchanged /\ ~isPlaying'
                            /\ lastScoreTimeSec' = null)
       /\ ResumeClick => (ScoreStateUnchanged /\ isPlaying'
                             /\ lastScoreTimeSec' = getGameTimeSec(S'))
       /\ ~isPlaying' => lastScoreTimeSec' = null
       /\ (Evaluation /\ lastScoreTimeSec = null) => ScoreStateUnchanged
       /\ (Evaluation /\ lastScoreTimeSec # null) =>
             statsTrackedTimeSec' - statsTrackedTimeSec
                <= Max(0, videoTime - lastScoreTimeSec)]_vars

\* a sample scored after the session was paused and resumed, later in the
\* video than the pause
C37_ScoredAfterResume ==
    /\ isPlaying /\ clicks = 2
    /\ lastCall \in {"good", "bad"}
    /\ statsTrackedTimeSec > 0
    /\ statsTrackedTimeSec < videoTime

\* C38: in every reachable state goodTimeAccumSec is the fractional part of
\* goodStreakSec, goodStreakSec - floor(goodStreakSec): both grow by the
\* same dt, are reset together, and goodTimeAccumSec loses whole seconds only
C38_AccumIsFractionOfStreak == goodTimeAccumSec = goodStreakSec % TicksPerSec

\* a streak past a whole second with a fraction of a second on top
C38_StreakPastWholeSecond ==
    /\ lastCall = "good"
    /\ goodStreakSec > TicksPerSec
    /\ goodTimeAccumSec > 0
    /\ score > 0

\* the angle of a pose under a key, null when the pose has no such key
angleOf(angles, angleName) ==
    IF angleName \in DOMAIN angles THEN angles[angleName] ELSE null

\* the comparison evaluated the key: reference and performer angle present
bothPresent(angleName) ==
    /\ angleOf(compared.refAngles, angleName) # null
    /\ angleOf(compared.playerAngles, angleName) # null

\* C39: compareAngles uses the performer angle of a key unsmoothed on the
\* first sample after the history was cleared and afterwards smoothed as
\* ANGLE_SMOOTHING * raw + (1 - ANGLE_SMOOTHING) * prior, prior being the
\* smoothed value emitted last for the key; the smoothed value is what is
\* compared, and the history entry is written in exactly the samples that
\* have both the reference and the performer angle of the key
C39_AngleSmoothedAgainstPrior ==
    compared.called =>
      \A angleName \in AngleNames :
        LET prior == compared.angleHistory[angleName]
            raw == compared.playerAngles[angleName]
            smoothed == angleSmoothHistory[angleName]
        IN  IF bothPresent(angleName)
            THEN /\ smoothed =
                      (IF prior = null THEN raw
                       ELSE (ANGLE_SMOOTHING * raw
                             + (Tenth - ANGLE_SMOOTHING) * prior) \div Tenth)
                 /\ compared.angles.history[angleName] = smoothed
                 /\ compared.angles.similarities[angleName] =
                      Max(0, SimilarityDen
                             - Abs(smoothed - compared.refAngles[angleName]))
            ELSE smoothed = prior

\* a comparison that smooths one key against a different prior value and
\* leaves the entry of another key, seen before but absent now, as it was
C39_SmoothedAndSkipped ==
    /\ compared.called
    /\ \E angleName \in AngleNames :
         /\ bothPresent(angleName)
         /\ compared.angleHistory[angleName] # null
         /\ angleSmoothHistory[angleName]
              \notin {compared.angleHistory[angleName],
                      compared.playerAngles[angleName]}
    /\ \E angleName \in AngleNames :
         /\ ~bothPresent(angleName)
         /\ compared.angleHistory[angleName] # null

\* C11: over an uninterrupted run of samples at or above the threshold that
\* starts with zero accumulators, the score gained is
\* SCORE_POINTS_PER_SECOND * floor(T) and combo is
\* min(MAX_COMBO, floor(T / COMBO_SECONDS)), T being the time from the start
\* of the run to its last sample, however many samples the run has and
\* however they are spaced.
C11_ScoreIsTimeDriven ==
    /\ score = SCORE_POINTS_PER_SECOND * (lastScoreTimeSec \div TicksPerSec)
    /\ combo = Min(MAX_COMBO, lastScoreTimeSec \div (COMBO_SECONDS * TicksPerSec))

\* a run of at least three samples, the last one a fraction of a second
\* after a whole second and past the combo cap
C11_LongRunOfSamples ==
    /\ lastCall = "good"
    /\ frames >= 3
    /\ lastScoreTimeSec >= MAX_COMBO * COMBO_SECONDS * TicksPerSec
    /\ lastScoreTimeSec % TicksPerSec # 0
    /\ score = SCORE_POINTS_PER_SECOND * (lastScoreTimeSec \div TicksPerSec)

----------------------------------------------------------------------------
(* The reference track and its lookups.  An entry of the track is a record  *)
(* of its timestamp, whether it carries landmarks, and the overall_score    *)
(* comparePosesQuick gives it against the current performer pose.  Entries  *)
(* are addressed by their 0-based index, as in the source; a lookup that    *)
(* returns entries is modelled as returning their indices.  The detector    *)
(* callback above takes the entry resolved for it as an input.              *)


\* poses[i].timestamp
timestampAt(track, i) == track[i + 1].timestamp

hintAppliesAlways(track, hint, time, windowSize) ==
    hint > 0 /\ hint < Len(track)

\* lastSearchIndex > 0 && lastSearchIndex < poses.length
\*   && Math.abs(lastTime - time) < windowSize * 2
hintApplies(track, hint, time, windowSize) ==
    /\ hint > 0 /\ hint < Len(track)
    /\ Abs(timestampAt(track, hint) - time) < windowSize * 2

searchLeft(track, hint, time, windowSize) ==
    IF hintApplies(track, hint, time, windowSize)
    THEN Max(0, hint - SEARCH_HINT_RADIUS)
    ELSE 0

searchRight(track, hint, time, windowSize) ==
    IF hintApplies(track, hint, time, windowSize)
    THEN Min(Len(track) - 1, hint + SEARCH_HINT_RADIUS)
    ELSE Len(track) - 1

\* the binary search for the first entry with timestamp >= windowStart
RECURSIVE firstAtOrAfter(_, _, _, _, _)
firstAtOrAfter(track, left, right, startIdx, windowStart) ==
    IF left > right THEN startIdx
    ELSE LET mid == (left + right) \div 2 IN
         IF timestampAt(track, mid) >= windowStart
         THEN firstAtOrAfter(track, left, mid - 1, mid, windowStart)
         ELSE firstAtOrAfter(track, mid + 1, right, startIdx, windowStart)

RECURSIVE collectToEnd(_, _, _)
collectToEnd(track, i, windowEnd) ==
    IF i >= Len(track) THEN <<>>
    ELSE <<i>> \o collectToEnd(track, i + 1, windowEnd)

\* for (i = startIdx; i < poses.length; i++)
\*   { if (pose.timestamp > windowEnd) break; posesInWindow.push(pose) }
RECURSIVE collect(_, _, _)
collect(track, i, windowEnd) ==
    IF i >= Len(track) THEN <<>>
    ELSE IF timestampAt(track, i) > windowEnd THEN <<>>
    ELSE <<i>> \o collect(track, i + 1, windowEnd)

\* the entries returned and the hint left behind
getReferencePosesInWindow(track, hint, time, windowSize) ==
    IF Len(track) = 0
    THEN [posesInWindow |-> <<>>, lastSearchIndex |-> hint]
    ELSE
      LET startIdx == firstAtOrAfter(track,
                          searchLeft(track, hint, time, windowSize),
                          searchRight(track, hint, time, windowSize),
                          Len(track), time - windowSize)
          posesInWindow == collect(track, startIdx, time + windowSize)
      IN  [posesInWindow |-> posesInWindow,
           lastSearchIndex |-> IF Len(posesInWindow) > 0 THEN startIdx ELSE hint]

\* for (const pose of poses) { if (diff < minDiff) { minDiff = diff; closest = pose } }
RECURSIVE closestFrom(_, _, _, _)
closestFrom(track, i, closest, time) ==
    IF i >= Len(track) THEN closest
    ELSE IF Abs(time - timestampAt(track, i)) < Abs(time - timestampAt(track, closest))
         THEN closestFrom(track, i + 1, i, time)
         ELSE closestFrom(track, i + 1, closest, time)

getReferencePoseAtTimeNoTolerance(track, time) ==
    IF Len(track) = 0 THEN null ELSE closestFrom(track, 0, 0, time)

\* the index of the entry returned, or null
getReferencePoseAtTime(track, time) ==
    IF Len(track) = 0 THEN null
    ELSE LET closest == closestFrom(track, 0, 0, time) IN
         IF Abs(time - timestampAt(track, closest)) > POSE_TIME_TOLERANCE_SEC
         THEN null
         ELSE closest

\* an entry with landmarks that comparePosesQuick scores 0
PlainPose(ts) == [timestamp |-> ts, landmarks |-> TRUE, quick |-> 0]

\* the track is loaded entry by entry, timestamps non-decreasing, before the
\* first lookup
LoadPose(pose) ==
    /\ lookup = NoLookup
    /\ Len(poses) < MaxTrackLen
    /\ Len(poses) > 0 => pose.timestamp >= poses[Len(poses)].timestamp
    /\ poses' = Append(poses, pose)
    /\ UNCHANGED <<gameVars, lastSearchIndex, lookup>>

LoadPlainPose == \E ts \in 0..MaxTrackTime : LoadPose(PlainPose(ts))

QueryWindow ==
    \E time \in 0..MaxQueryTime, windowSize \in 0..MaxWindow :
      LET r == getReferencePosesInWindow(poses, lastSearchIndex, time, windowSize)
      IN  /\ lastSearchIndex' = r.lastSearchIndex
          /\ lookup' = [fn |-> "window", time |-> time,
                        windowSize |-> windowSize, hint |-> lastSearchIndex,
                        candidates |-> r.posesInWindow,
                        result |-> r.posesInWindow]
          /\ UNCHANGED <<gameVars, poses>>

QueryAtTime ==
    \E time \in 0..MaxQueryTime :
      LET r == getReferencePoseAtTime(poses, time)
      IN  /\ lookup' = [fn |-> "atTime", time |-> time, windowSize |-> 0,
                        hint |-> lastSearchIndex, candidates |-> <<>>,
                        result |-> IF r = null THEN <<>> ELSE <<r>>]
          /\ UNCHANGED <<gameVars, poses, lastSearchIndex>>

\* comparePosesQuick(currentPlayerPose, refPose).overall_score
comparePosesQuick(pose) == IF pose.landmarks THEN pose.quick ELSE 0

RECURSIVE bestCandidateNoEarlyExit(_, _, _, _, _)
bestCandidateNoEarlyExit(track, candidates, k, bestPose, bestScore) ==
    IF k > Len(candidates) THEN bestPose
    ELSE LET refPose == track[candidates[k] + 1] IN
         IF ~refPose.landmarks
         THEN bestCandidateNoEarlyExit(track, candidates, k + 1, bestPose, bestScore)
         ELSE IF comparePosesQuick(refPose) > bestScore
         THEN bestCandidateNoEarlyExit(track, candidates, k + 1, candidates[k],
                                       comparePosesQuick(refPose))
         ELSE bestCandidateNoEarlyExit(track, candidates, k + 1, bestPose, bestScore)

\* the loop over candidatePoses from candidate k on: the index of bestPose,
\* or null
RECURSIVE bestCandidate(_, _, _, _, _)
bestCandidate(track, candidates, k, bestPose, bestScore) ==
    IF k > Len(candidates) THEN bestPose
    ELSE LET refPose == track[candidates[k] + 1] IN
         IF ~refPose.landmarks
         THEN bestCandidate(track, candidates, k + 1, bestPose, bestScore)
         ELSE IF comparePosesQuick(refPose) > bestScore
         THEN IF comparePosesQuick(refPose) >= EARLY_EXIT_THRESHOLD
              THEN candidates[k]
              ELSE bestCandidate(track, candidates, k + 1, candidates[k],
                                 comparePosesQuick(refPose))
         ELSE bestCandidate(track, candidates, k + 1, bestPose, bestScore)

getCurrentReferencePoseNoDelegation(track, hint, playerPose, currentTime) ==
    LET w == getReferencePosesInWindow(track, hint, currentTime, POSE_TIME_WINDOW)
        candidatePoses == w.posesInWindow
        bestPose == bestCandidate(track, candidatePoses, 1, null, -1)
    IN  [candidates |-> candidatePoses, lastSearchIndex |-> w.lastSearchIndex,
         result |-> IF Len(candidatePoses) = 0 THEN null
                    ELSE IF bestPose # null THEN bestPose ELSE candidatePoses[1]]

\* the index of the entry returned (or null), the candidates of the window
\* and the hint left behind
getCurrentReferencePose(track, hint, playerPose, currentTime) ==
    IF playerPose = null
    THEN [candidates |-> <<>>, lastSearchIndex |-> hint,
          result |-> getReferencePoseAtTime(track, currentTime)]
    ELSE
      LET w == getReferencePosesInWindow(track, hint, currentTime, POSE_TIME_WINDOW)
          candidatePoses == w.posesInWindow
          bestPose == bestCandidate(track, candidatePoses, 1, null, -1)
      IN  [candidates |-> candidatePoses, lastSearchIndex |-> w.lastSearchIndex,
           result |->
             IF Len(candidatePoses) = 0
             THEN getReferencePoseAtTime(track, currentTime)
             ELSE IF Len(candidatePoses) = 1 THEN candidatePoses[1]
             ELSE IF bestPose # null THEN bestPose ELSE candidatePoses[1]]

\* a track of a few entries that differ in landmarks and quick score
LoadAnyPose ==
    /\ Len(poses) < MaxCandidates
    /\ \E ts \in 0..MaxTrackTime, lm \in BOOLEAN, q \in QuickScores :
         LoadPose([timestamp |-> ts, landmarks |-> lm,
                   quick |-> IF lm THEN q ELSE 0])

\* the detector delivers the performer's landmarks (onPoseResults stores them)
StorePlayerPose ==
    /\ lookup = NoLookup
    /\ currentPlayerPose = null
    /\ Commit([S EXCEPT !.currentPlayerPose = MaxDetected])
    /\ UNCHANGED <<lastCall, comparison, frozenAt, calibration, scoreControl,
                   compared, clicks, frames>>

ResolveCurrent ==
    \E time \in 0..MaxQueryTime :
      LET r == getCurrentReferencePose(poses, lastSearchIndex,
                                       currentPlayerPose, time)
      IN  /\ lastSearchIndex' = r.lastSearchIndex
          /\ lookup' = [fn |-> "current", time |-> time,
                        windowSize |-> POSE_TIME_WINDOW,
                        hint |-> lastSearchIndex,
                        candidates |-> r.candidates,
                        result |-> IF r.result = null THEN <<>> ELSE <<r.result>>]
          /\ UNCHANGED <<gameVars, poses>>

NextResolve == LoadAnyPose \/ StorePlayerPose \/ ResolveCurrent

SpecResolve == Init /\ [][NextResolve]_vars

NextTrack == LoadPlainPose \/ QueryWindow \/ QueryAtTime

SpecTrack == Init /\ [][NextTrack]_vars

\* the indices of the entries of the track within windowSize of time
InWindow(track, time, windowSize) ==
    {i \in 0..(Len(track) - 1) : Abs(timestampAt(track, i) - time) <= windowSize}

Returned == {lookup.result[k] : k \in 1..Len(lookup.result)}

\* C13: getReferencePosesInWindow(t, w) returns all entries of the track
\* with |timestamp - t| <= w, whatever hint earlier queries left.
C13_WindowReturnsAllInWindow ==
    lookup.fn = "window"
        => InWindow(poses, lookup.time, lookup.windowSize) \subseteq Returned

\* C14: every entry getReferencePosesInWindow(t, w) returns has
\* |timestamp - t| <= w, and the entries returned are consecutive entries of
\* the track in ascending order, whatever hint earlier queries left.
C14_WindowReturnsOnlyInWindow ==
    lookup.fn = "window" =>
        /\ Returned \subseteq InWindow(poses, lookup.time, lookup.windowSize)
        /\ \A k \in 1..(Len(lookup.result) - 1) :
             /\ lookup.result[k + 1] = lookup.result[k] + 1
             /\ timestampAt(poses, lookup.result[k])
                    <= timestampAt(poses, lookup.result[k + 1])

\* a query made with a hint left by an earlier one, which returned several
\* entries from the middle of the track
C14_HintedQueryReturnedRun ==
    /\ lookup.fn = "window"
    /\ lookup.hint > 0
    /\ Len(lookup.result) >= 2
    /\ lookup.result[1] > 0
    /\ lookup.result[Len(lookup.result)] < Len(poses) - 1

DiffAt(track, i, time) == Abs(time - timestampAt(track, i))

\* C15: getReferencePoseAtTime(t) returns the earliest entry whose
\* |timestamp - t| is minimal over the track when that minimum is at most
\* POSE_TIME_TOLERANCE_SEC, and null when the minimum exceeds the tolerance or
\* the track is empty.
C15_NearestWithinTolerance ==
    lookup.fn = "atTime" =>
        LET all == 0..(Len(poses) - 1)
            near == {i \in all :
                        /\ DiffAt(poses, i, lookup.time) <= POSE_TIME_TOLERANCE_SEC
                        /\ \A j \in all : DiffAt(poses, i, lookup.time)
                                            <= DiffAt(poses, j, lookup.time)}
        IN  IF near = {}
            THEN lookup.result = <<>>
            ELSE /\ Len(lookup.result) = 1
                 /\ lookup.result[1] \in near
                 /\ \A i \in near : lookup.result[1] <= i

\* a tie between an entry before and an entry after the time queried,
\* resolved to the earlier one
C15_TieResolvedToEarliest ==
    /\ lookup.fn = "atTime"
    /\ Len(lookup.result) = 1
    /\ \E j \in 0..(Len(poses) - 1) :
         /\ j > lookup.result[1]
         /\ timestampAt(poses, j) > lookup.time
         /\ DiffAt(poses, j, lookup.time) = DiffAt(poses, lookup.result[1], lookup.time)

Candidates == {lookup.candidates[k] : k \in 1..Len(lookup.candidates)}

\* C16: getCurrentReferencePose returns what getReferencePoseAtTime(now)
\* returns when no performer pose is available or the window holds no
\* candidate; it returns the candidate when the window holds exactly one;
\* and it returns one of the candidates when the window holds several.
C16_ResolvesFromWindowOrNearest ==
    lookup.fn = "current" =>
        IF currentPlayerPose = null \/ Len(lookup.candidates) = 0
        THEN LET nearest == getReferencePoseAtTime(poses, lookup.time)
             IN  lookup.result = IF nearest = null THEN <<>> ELSE <<nearest>>
        ELSE IF Len(lookup.candidates) = 1
        THEN lookup.result = lookup.candidates
        ELSE Len(lookup.result) = 1 /\ lookup.result[1] \in Candidates

\* with a performer pose and an empty window, the nearest entry, which is
\* outside the window and within the tolerance, has been returned
C16_DelegatedOnEmptyWindow ==
    /\ lookup.fn = "current"
    /\ currentPlayerPose # null
    /\ lookup.candidates = <<>>
    /\ Len(lookup.result) = 1
    /\ DiffAt(poses, lookup.result[1], lookup.time) > POSE_TIME_WINDOW

\* the candidates that carry landmarks, and the score of a candidate
WithLandmarks == {i \in Candidates : poses[i + 1].landmarks}
QuickOf(i) == poses[i + 1].quick

\* C17: with two or more candidates getCurrentReferencePose returns the
\* first candidate, in ascending order, whose comparePosesQuick score is
\* at least 0.95 if there is one, otherwise the earliest of the candidates
\* of highest score; candidates without landmarks are passed over, unless
\* no candidate has landmarks, and then the first candidate is returned.
C17_BestCandidateWithEarlyExit ==
    (lookup.fn = "current" /\ currentPlayerPose # null
        /\ Len(lookup.candidates) >= 2) =>
        /\ Len(lookup.result) = 1
        /\ LET got == lookup.result[1]
               high == {i \in WithLandmarks : QuickOf(i) >= EARLY_EXIT_THRESHOLD}
               best == {i \in WithLandmarks :
                           \A j \in WithLandmarks : QuickOf(j) <= QuickOf(i)}
           IN  IF WithLandmarks = {} THEN got = lookup.candidates[1]
               ELSE IF high # {}
               THEN got \in high /\ \A i \in high : got <= i
               ELSE got \in best /\ \A i \in best : got <= i

\* the search stopped at a candidate of score 0.95 although a later
\* candidate scores higher, and passed over a candidate without landmarks
C17_StoppedAtFirstHighScore ==
    /\ lookup.fn = "current"
    /\ Len(lookup.candidates) >= 3
    /\ Len(lookup.result) = 1
    /\ QuickOf(lookup.result[1]) = EARLY_EXIT_THRESHOLD
    /\ \E i \in WithLandmarks :
         i > lookup.result[1] /\ QuickOf(i) > EARLY_EXIT_THRESHOLD
    /\ \E i \in Candidates \ WithLandmarks : i < lookup.result[1]

====
